---- MODULE Spec2Model ----
(***************************************************************************)
(* A model of the migration runner github.com/aatuh/migrator: the          *)
(* Migrator's MigrateUp / MigrateDown orchestration, the transactional     *)
(* wrapper, and the SQL history manager it writes through.                 *)
(*                                                                         *)
(* One action is one interaction with the database (or the invocation of   *)
(* a call); the local computation that follows it up to the next           *)
(* interaction is part of the same action.                                 *)
(***************************************************************************)
EXTENDS Integers, Sequences, FiniteSets, TLC

\* ------------------------------------------------------------------ bounds
\* Most migrations the sources supply together.
MaxMigs == 2
\* Most steps in one direction of one migration.
MaxSteps == 2
\* Width of the model's int (TLC integers are 32 bit; the build's int is 64).
IntSize == 16
\* Most With calls in a row.
MaxBuilds == 2
\* Most entries of the directory the file sources read.
MaxFiles == 4
\* Most LoadMigrations calls of file sources in a row.
MaxLoads == 1

\* --------------------------------------------------------------- strings
\* A string is a sequence of one-character strings.
Digits == <<"0", "1", "2", "3", "4", "5", "6", "7", "8", "9">>

IsDigit(ch) == \E d \in 1..10 : Digits[d] = ch

DigitVal(ch) == (CHOOSE d \in 1..10 : Digits[d] = ch) - 1

MaxInt == 2 ^ (IntSize - 1) - 1

MinInt == 0 - 2 ^ (IntSize - 1)

\* The magnitude of a digit string, or -1 for a syntax error, or MaxInt + 1
\* once the value leaves the int range (strconv reports ErrRange).
RECURSIVE ParseDigits(_, _)
ParseDigits(s, acc) ==
    IF s = <<>> THEN acc
    ELSE IF ~IsDigit(Head(s)) THEN -1
    ELSE LET n == acc * 10 + DigitVal(Head(s))
             r == ParseDigits(Tail(s), IF n > MaxInt THEN MaxInt + 1 ELSE n)
         IN  r

\* C31's mutant of Atoi: a value out of range gives 0 as a syntax error does.
AtoiRangeZero(s) ==
    LET neg  == s # <<>> /\ Head(s) = "-"
        body == IF s # <<>> /\ Head(s) \in {"+", "-"} THEN Tail(s) ELSE s
        mag  == IF body = <<>> THEN -1 ELSE ParseDigits(body, 0)
    IN  IF mag = -1 THEN 0
        ELSE IF mag > MaxInt THEN 0
        ELSE IF neg THEN 0 - mag ELSE mag

\* strconv.Atoi with its error dropped (v, _ := strconv.Atoi(s)): 0 for a
\* syntax error, the nearest int for a value out of range.
Atoi(s) ==
    LET neg  == s # <<>> /\ Head(s) = "-"
        body == IF s # <<>> /\ Head(s) \in {"+", "-"} THEN Tail(s) ELSE s
        mag  == IF body = <<>> THEN -1 ELSE ParseDigits(body, 0)
    IN  IF mag = -1 THEN 0
        ELSE IF neg THEN (IF mag > MaxInt THEN MinInt ELSE 0 - mag)
        ELSE IF mag > MaxInt THEN MaxInt ELSE mag

\* The ASCII letters, upper case and lower case in step.
UpperLetters == <<"A", "B", "C", "D", "E", "F", "G", "H", "I", "J", "K", "L", "M",
                  "N", "O", "P", "Q", "R", "S", "T", "U", "V", "W", "X", "Y", "Z">>

LowerLetters == <<"a", "b", "c", "d", "e", "f", "g", "h", "i", "j", "k", "l", "m",
                  "n", "o", "p", "q", "r", "s", "t", "u", "v", "w", "x", "y", "z">>

\* strings.ToLower on ASCII.
ToLower(s) ==
    [i \in DOMAIN s |-> IF \E n \in DOMAIN UpperLetters : UpperLetters[n] = s[i]
                        THEN LowerLetters[CHOOSE n \in DOMAIN UpperLetters : UpperLetters[n] = s[i]]
                        ELSE s[i]]

\* The largest member of a non-empty set of numbers.
MaxOf(S) == CHOOSE x \in S : \A y \in S : y <= x

\* path.Ext: the suffix from the last dot of the last element of the path,
\* empty when that element has no dot.
Ext(p) ==
    LET dots == { i \in DOMAIN p : p[i] = "." /\ \A j \in i..Len(p) : p[j] # "/" }
    IN  IF dots = {} THEN <<>> ELSE SubSeq(p, MaxOf(dots), Len(p))

\* path.Base: the last element of the path, trailing slashes removed.
RECURSIVE Base(_)
Base(p) ==
    IF p = <<>> THEN <<".">>
    ELSE IF p[Len(p)] = "/" THEN (IF Len(p) = 1 THEN <<"/">> ELSE Base(SubSeq(p, 1, Len(p) - 1)))
    ELSE LET slashes == { i \in DOMAIN p : p[i] = "/" }
         IN  IF slashes = {} THEN p ELSE SubSeq(p, MaxOf(slashes) + 1, Len(p))

\* path.Join of a directory and a file name, both clean.
PathJoin(dir, name) == IF dir = <<>> THEN name ELSE dir \o <<"/">> \o name

HasPrefix(s, pre) == Len(pre) <= Len(s) /\ SubSeq(s, 1, Len(pre)) = pre

HasSuffix(s, suf) == Len(suf) <= Len(s) /\ SubSeq(s, Len(s) - Len(suf) + 1, Len(s)) = suf

\* strings.TrimSuffix.
TrimSuffix(s, suf) == IF HasSuffix(s, suf) THEN SubSeq(s, 1, Len(s) - Len(suf)) ELSE s

\* strings.Split on a non-empty separator: the pieces between its
\* occurrences, taken from the left; one piece when there is none.
RECURSIVE SplitFrom(_, _, _)
SplitFrom(s, sep, piece) ==
    IF s = <<>> THEN << piece >>
    ELSE IF HasPrefix(s, sep) THEN << piece >> \o SplitFrom(SubSeq(s, Len(sep) + 1, Len(s)), sep, <<>>)
    ELSE SplitFrom(Tail(s), sep, Append(piece, Head(s)))

Split(s, sep) == SplitFrom(s, sep, <<>>)

\* strings.Join.
RECURSIVE Join(_, _)
Join(parts, sep) ==
    IF parts = <<>> THEN <<>>
    ELSE IF Len(parts) = 1 THEN parts[1]
    ELSE parts[1] \o sep \o Join(Tail(parts), sep)

\* The white space a file of the model may hold.
IsSpace(ch) == ch \in {" ", "\n", "\t", "\r"}

\* strings.TrimSpace.
RECURSIVE TrimSpace(_)
TrimSpace(s) ==
    IF s = <<>> THEN s
    ELSE IF IsSpace(Head(s)) THEN TrimSpace(Tail(s))
    ELSE IF IsSpace(s[Len(s)]) THEN TrimSpace(SubSeq(s, 1, Len(s) - 1))
    ELSE s

\* ------------------------------------------------------------ migrations
\* The Version strings the sources and the targets are drawn from.
VersionPool == { <<"1">>, <<"0", "2">>, <<"a">> }

\* The empty target plus every pool version.
Targets == { <<>> } \cup VersionPool

\* A SQL step holding the given text.
NewSQLMigrationStep(sql) == [kind |-> "sql", SQL |-> sql]

\* A hook is a function value: the function named fn, closed over the path
\* of a file when a source built it.
Hook(fn, path) == [fn |-> fn, path |-> path]

\* The hook that is not set.
NilHook == Hook("nil", <<>>)

\* A hook step as constructed: neither hook is set.
NewHookMigrationStep == [kind |-> "hook", UpHook |-> NilHook, DownHook |-> NilHook]

\* n SQL steps of a migration; the text names version, direction and place.
StepsOf(v, dir, n) == [j \in 1..n |-> NewSQLMigrationStep(<<dir>> \o v \o <<Digits[j + 1]>>)]

\* A migration as a source supplies it.
NewMigration(v, nUp, nDown) ==
    [Version |-> v, UpSteps |-> StepsOf(v, "U", nUp), DownSteps |-> StepsOf(v, "D", nDown)]

\* The migrations a source may supply: up to MaxSteps up steps, and the same
\* number of down steps or none.
MigPool == UNION { { NewMigration(v, nu, nd) : nd \in {0, nu} } : v \in VersionPool, nu \in 0..MaxSteps }

\* The names two migration streams sharing one table go by.
MigrationNames == {"app", "other"}

\* ------------------------------------------------------------- variables
VARIABLES
    sources,        \* Migrator.Sources: a sequence of sources, each the migrations it returns
    transactional,  \* Migrator.Transactional
    migrationName,  \* Migrator.MigrationName
    historyManager, \* Migrator.HistoryManager: "sqlite" or "mysql"
    callers,        \* the callers that use the Migrator
    tableExists,    \* the history table is there
    rows,           \* its committed rows, each [version, migration_name]
    call,           \* per caller: the call in flight (its locals)
    result,         \* per caller: what its last call returned
    log,            \* per caller: the database operations its current or last call issued
    sent,           \* per caller: what the steps of that call sent to the executor or invoked
    cur,            \* per caller: op, target and the rows at the start of that call
    prev,           \* per caller: the same of the successful call before it, with what it wrote
    tracking,       \* the calls prev is kept of: "none", those that succeed ("ok"), those that fail ("failed")
    heap,           \* the objects the With methods work on, by address
    last,           \* the last With call: receiver, argument, result and the heap before it
    files,          \* the directory the file sources read: its entries in name order
    loaded          \* what the last LoadMigrations of a file source returned

vars == <<sources, transactional, migrationName, historyManager, callers, tableExists, rows,
          call, result, log, sent, cur, prev, tracking, heap, last, files, loaded>>

\* What the Migrator's calls leave alone: the objects the builders work on
\* and what the file sources read and return.
aside == <<heap, last, files, loaded>>

config == <<sources, transactional, migrationName, historyManager, callers, tracking>>

AllCallers == {"c1", "c2"}

\* ---------------------------------------------------------------- errors
NoErr == [kind |-> "nil", id |-> 0, k |-> 0, rb |-> FALSE]

NewErr(kind, id, k) == [kind |-> kind, id |-> id, k |-> k, rb |-> FALSE]

\* C19's mutant of CompositeErr: the rollback error is dropped.
CompositeErrOnlyOriginal(e) == e

\* The composite error of rollbackIfTransactional: a new error whose text
\* holds the original error and the rollback error.
CompositeErr(e) == [e EXCEPT !.rb = TRUE]

NotReturned == [kind |-> "none", id |-> 0, k |-> 0, rb |-> FALSE]

\* ------------------------------------------------------ LoadAllMigrations
\* A source that returns a given list of migrations (any implementation of
\* MigrationSource that holds its migrations in memory).
ListSource(migs) == [kind |-> "list", migs |-> migs]

\* The literal source.
NewVarMigrationSource(version, name, upSQL, downSQL) ==
    [kind |-> "var", Version |-> version, Name |-> name, UpSQL |-> upSQL, DownSQL |-> downSQL]

\* VarMigrationSource.LoadMigrations: one migration, one SQL step a direction.
VarLoadMigrations(v) ==
    << [Version |-> v.Version, Name |-> v.Name,
        UpSteps |-> << NewSQLMigrationStep(v.UpSQL) >>,
        DownSteps |-> << NewSQLMigrationStep(v.DownSQL) >>] >>

\* src.LoadMigrations() when it returns no error.
LoadMigrations(src) == IF src.kind = "var" THEN VarLoadMigrations(src) ELSE src.migs

\* C16's mutant of Concat: the slice of a source replaces what was loaded
\* before it instead of being appended.
ConcatLast(ss) == IF ss = <<>> THEN <<>> ELSE LoadMigrations(ss[Len(ss)])

\* The loop over the sources: the slice of each is appended.
RECURSIVE Concat(_)
Concat(ss) == IF ss = <<>> THEN <<>> ELSE LoadMigrations(Head(ss)) \o Concat(Tail(ss))

\* The migrations all sources return, in discovery order, each tagged with
\* its place in that order.
Discovered(ss) ==
    LET flat == Concat(ss)
    IN  [n \in 1..Len(flat) |->
            [id |-> n, Version |-> flat[n].Version,
             UpSteps |-> flat[n].UpSteps, DownSteps |-> flat[n].DownSteps]]

\* The less function of the two sort.Slice calls.
Less(a, b, dir) ==
    IF dir = "up" THEN Atoi(a.Version) < Atoi(b.Version)
    ELSE Atoi(a.Version) > Atoi(b.Version)

\* One pass of the insertion sort: x moves left while it is less than its
\* left neighbour.
RECURSIVE InsertLeft(_, _, _)
InsertLeft(sorted, x, dir) ==
    IF sorted # <<>> /\ Less(x, sorted[Len(sorted)], dir)
    THEN Append(InsertLeft(SubSeq(sorted, 1, Len(sorted) - 1), x, dir), sorted[Len(sorted)])
    ELSE Append(sorted, x)

\* C10's mutant of SortSlice: the slice is left in discovery order.
SortSliceNone(s, dir) == s

\* sort.Slice on a slice it sorts by insertion (one of up to MaxInsertion
\* elements), which keeps elements that compare equal in their order.
RECURSIVE SortSlice(_, _)
SortSlice(s, dir) ==
    IF s = <<>> THEN <<>>
    ELSE InsertLeft(SortSlice(SubSeq(s, 1, Len(s) - 1), dir), s[Len(s)], dir)

\* The longest slice sort.Slice sorts by insertion.
MaxInsertion == 12

\* Every order of the elements `left` of s that the less function of
\* direction dir calls sorted.
RECURSIVE SortedOrders(_, _, _)
SortedOrders(s, left, dir) ==
    IF left = {} THEN { <<>> }
    ELSE UNION { { <<s[i]>> \o r : r \in SortedOrders(s, left \ {i}, dir) } :
                 i \in { j \in left : \A k \in left : ~Less(s[k], s[j], dir) } }

\* What sort.Slice may leave of a slice whose insertion sort is `sorted`:
\* that, for a slice it sorts by insertion; for a longer one the sort is
\* not stable, and any sorted order of the elements may come out.
SortSliceOutcomes(sorted, dir) ==
    IF Len(sorted) <= MaxInsertion THEN { sorted }
    ELSE SortedOrders(sorted, DOMAIN sorted, dir)

\* C17's mutant of HasNoUpSteps: only the first migration is validated.
HasNoUpStepsFirst(all) == all # <<>> /\ Len(all[1].UpSteps) = 0

\* The validation loop finds a migration without up steps.
HasNoUpSteps(all) == \E n \in 1..Len(all) : Len(all[n].UpSteps) = 0

FirstNoUpSteps(all) == CHOOSE n \in 1..Len(all) :
    /\ Len(all[n].UpSteps) = 0
    /\ \A m \in 1..(n - 1) : Len(all[m].UpSteps) # 0

\* LoadAllMigrations when every source loads: the error, or the sorted list.
LoadAllMigrations(ss) ==
    LET all == Discovered(ss)
    IN  IF HasNoUpSteps(all)
        THEN [err |-> NewErr("validation", FirstNoUpSteps(all), 0), all |-> <<>>]
        ELSE [err |-> NoErr, all |-> SortSlice(all, "up")]

\* ----------------------------------------------------------- file sources
\* The built-in parser: VERSION_name_up.ext or VERSION_name_down.ext.
defaultParseFilename(filename) ==
    LET base      == TrimSuffix(filename, Ext(filename))
        parts     == Split(base, <<"_">>)
        direction == ToLower(parts[Len(parts)])
    IN  IF Len(parts) < 3 \/ direction \notin { <<"u", "p">>, <<"d", "o", "w", "n">> }
        THEN [ok |-> FALSE, version |-> <<>>, name |-> <<>>, direction |-> <<>>]
        ELSE [ok |-> TRUE, version |-> parts[1],
              name |-> Join(SubSeq(parts, 2, Len(parts) - 1), <<"_">>),
              direction |-> direction]

\* A slice of strings, or the nil slice.
Slice(elems) == [nil |-> FALSE, elems |-> elems]

NilSlice == [nil |-> TRUE, elems |-> <<>>]

\* slices.Contains.
Contains(sl, x) == \E i \in DOMAIN sl.elems : sl.elems[i] = x

\* The extensions a directory source allows by default.
DefaultExts == Slice(<< <<".", "s", "q", "l">>, <<".", "s", "q", "l", "i", "t", "e">> >>)

\* The directory source as constructed. A parser is "nil" or the name of a
\* parser; ResolveHooks is "nil" or the name of a resolver.
NewDirMigrationSource(dir) ==
    [kind |-> "dir", Dir |-> dir, FilenameParser |-> "default", AllowedExts |-> DefaultExts,
     ResolveHooks |-> "nil"]

\* The single-file source as constructed: only the path is set.
NewFileMigrationSource(filePath) ==
    [kind |-> "file", FilePath |-> filePath, FilenameParser |-> "nil", PreHook |-> "nil",
     PostHook |-> "nil"]

\* A migration as NewMigration of the code returns it: no steps yet.
EmptyMigration(version, name) ==
    [Version |-> version, Name |-> name, UpSteps |-> <<>>, DownSteps |-> <<>>]

\* NewHookMigrationStep().WithUpHook(h) or .WithDownHook(h).
HookStepFor(direction, h) ==
    IF direction = "up" THEN [NewHookMigrationStep EXCEPT !.UpHook = h]
    ELSE [NewHookMigrationStep EXCEPT !.DownHook = h]

\* C26's mutant of FileSteps: the post-hook step comes before the content.
FileStepsPostFirst(direction, pre, post, content, fullPath) ==
    (IF pre # "nil" THEN << HookStepFor(direction, Hook(pre, fullPath)) >> ELSE <<>>)
    \o (IF post # "nil" THEN << HookStepFor(direction, Hook(post, fullPath)) >> ELSE <<>>)
    \o << NewSQLMigrationStep(content) >>

\* The steps one file adds to a step list: the pre-hook closed over the
\* path when there is one, the text, the post-hook when there is one.
FileSteps(direction, pre, post, content, fullPath) ==
    (IF pre # "nil" THEN << HookStepFor(direction, Hook(pre, fullPath)) >> ELSE <<>>)
    \o << NewSQLMigrationStep(content) >>
    \o (IF post # "nil" THEN << HookStepFor(direction, Hook(post, fullPath)) >> ELSE <<>>)

\* The file name the resolver "one" has hooks for.
HookedName == <<"1", "_", "a", "_", "u", "p", ".", "s", "q", "l">>

\* d.ResolveHooks(name) for the resolvers of the model: hooks for every
\* file ("both", "pre", "post") or for one file only ("one"); none when the
\* field is nil.
Resolve(resolver, name) ==
    [pre  |-> IF resolver \in {"both", "pre"} \/ (resolver = "one" /\ name = HookedName)
              THEN "pre" ELSE "nil",
     post |-> IF resolver \in {"both", "post"} \/ (resolver = "one" /\ name = HookedName)
              THEN "post" ELSE "nil"]

\* The map from version to migration before the first file.
EmptyMap == [v \in {} |-> EmptyMigration(<<>>, <<>>)]

\* The loop of the directory source over the entries: directories, files
\* with an extension that is not allowed and files the parser rejects are
\* passed over; every other file adds its steps to the migration of its
\* version, which is created on the first file of the version. (The parser
\* of the model never returns a direction other than up and down.)
RECURSIVE DirCollect(_, _, _)
DirCollect(d, entries, mMap) ==
    IF entries = <<>> THEN mMap
    ELSE LET entry   == Head(entries)
             name    == entry.name
             allowed == IF d.AllowedExts.nil THEN DefaultExts ELSE d.AllowedExts
             parsed  == defaultParseFilename(name)
             version == parsed.version
             mig     == IF version \in DOMAIN mMap THEN mMap[version]
                        ELSE EmptyMigration(version, parsed.name)
             hooks   == Resolve(d.ResolveHooks, name)
             added   == FileSteps(IF parsed.direction = <<"u", "p">> THEN "up" ELSE "down",
                                  hooks.pre, hooks.post, entry.content, PathJoin(d.Dir, name))
             merged  == IF parsed.direction = <<"u", "p">>
                        THEN [mig EXCEPT !.UpSteps = @ \o added]
                        ELSE [mig EXCEPT !.DownSteps = @ \o added]
         IN  IF entry.isDir \/ ~Contains(allowed, ToLower(Ext(name))) \/ ~parsed.ok
             THEN DirCollect(d, Tail(entries), mMap)
             ELSE DirCollect(d, Tail(entries),
                             [v \in DOMAIN mMap \cup {version} |->
                                 IF v = version THEN merged ELSE mMap[v]])

\* Every order in which ranging over the map may visit its values.
RECURSIVE RangeOrders(_, _)
RangeOrders(mMap, keys) ==
    IF keys = {} THEN { <<>> }
    ELSE UNION { { << mMap[k] >> \o r : r \in RangeOrders(mMap, keys \ {k}) } : k \in keys }

\* DirMigrationSource.LoadMigrations when every read succeeds: the values
\* of the map in the order the range visits them, then sorted.
DirLoadMigrations(d, entries) ==
    LET mMap == DirCollect(d, entries, EmptyMap)
    IN  UNION { SortSliceOutcomes(SortSlice(o, "up"), "up") : o \in RangeOrders(mMap, DOMAIN mMap) }

\* FileMigrationSource.LoadMigrations when the read succeeds.
FileLoadMigrations(f, content) ==
    LET parts   == Split(content, <<"-", "-", " ", "D", "O", "W", "N">>)
        upSQL   == TrimSpace(parts[1])
        downSQL == IF Len(parts) > 1 THEN TrimSpace(parts[2]) ELSE <<>>
        bare    == TrimSuffix(Base(f.FilePath), Ext(f.FilePath))
        parsed  == defaultParseFilename(Base(f.FilePath))
        version == IF f.FilenameParser = "nil" \/ ~parsed.ok THEN bare ELSE parsed.version
        name    == IF f.FilenameParser = "nil" \/ ~parsed.ok THEN bare ELSE parsed.name
        mig     == EmptyMigration(version, name)
    IN  << [mig EXCEPT !.UpSteps = FileSteps("up", f.PreHook, f.PostHook, upSQL, f.FilePath),
                       !.DownSteps = FileSteps("down", f.PreHook, f.PostHook, downSQL, f.FilePath)] >>

\* Nothing was loaded from a file source yet.
NotLoaded == [n |-> 0, by |-> "none", src |-> [kind |-> "none"], err |-> FALSE, migs |-> <<>>]

\* --------------------------------------------------------------- builders
\* NewMigrator: the history manager defaults to the SQLite one. The sources
\* are the name of a slice, or "nil".
NewMigrator(db, historyTable, hm, name) ==
    [Sources |-> "nil", DB |-> db, HistoryTable |-> historyTable,
     HistoryManager |-> IF hm = "nil" THEN "sqlite" ELSE hm,
     MigrationName |-> name, Transactional |-> FALSE]

\* An object on the heap: its type and its fields.
Cell(type, obj) == [type |-> type, obj |-> obj]

\* One object of every type that has With methods, as its constructor
\* returns it.
Constructed ==
    << Cell("Migrator", NewMigrator("db", "t", "nil", "app")),
       Cell("Migration", EmptyMigration(<<"1">>, <<"a">>)),
       Cell("SQLMigrationStep", NewSQLMigrationStep(<<"A">>)),
       Cell("HookMigrationStep", NewHookMigrationStep),
       Cell("DirMigrationSource", NewDirMigrationSource(<<"m">>)),
       Cell("FileMigrationSource", NewFileMigrationSource(<<"m", "/", "f", ".", "s", "q", "l">>)) >>

\* No With method was called yet.
NoWith == [n |-> 0, method |-> "", recv |-> 0, ret |-> 0, before |-> <<>>]

\* --------------------------------------------------------- history table
Row(v, name) == [version |-> v, migration_name |-> name]

\* What SELECT version FROM t WHERE migration_name = ? gives on rows rs.
AppliedMigrations(rs, name) == { r.version : r \in { q \in rs : q.migration_name = name } }

HistoryManagers == {"sqlite", "mysql"}

\* The statement AppliedMigrations of a manager sends, word by word.
AppliedMigrationsQuery(hm) ==
    IF hm = "mysql"
    THEN <<"SELECT", "version", "FROM", "t", "AND", "migration_name", "=", "?">>
    ELSE <<"SELECT", "version", "FROM", "t", "WHERE", "migration_name", "=", "?">>

\* The database takes SELECT column FROM table with nothing or with a WHERE
\* clause after it; any other word there is a syntax error.
SelectParses(q) ==
    /\ Len(q) >= 4 /\ q[1] = "SELECT" /\ q[3] = "FROM"
    /\ Len(q) > 4 => q[5] = "WHERE"

\* AppliedMigrations of manager hm on a database: the versions of the name,
\* or an error when the statement is refused or the table is not there.
HistoryAppliedMigrations(hm, exists, rs, name) ==
    IF exists /\ SelectParses(AppliedMigrationsQuery(hm))
    THEN [ok |-> TRUE, versions |-> AppliedMigrations(rs, name)]
    ELSE [ok |-> FALSE, versions |-> {}]

\* C8's mutant of ApplyWrites: a DELETE matches no row.
RECURSIVE ApplyWritesNoDelete(_, _)
ApplyWritesNoDelete(rs, ws) ==
    IF ws = <<>> THEN rs
    ELSE ApplyWritesNoDelete(
            IF Head(ws).w = "insert" THEN rs \cup {Head(ws).row} ELSE rs,
            Tail(ws))

\* The rows a sequence of writes leaves of rs.
RECURSIVE ApplyWrites(_, _)
ApplyWrites(rs, ws) ==
    IF ws = <<>> THEN rs
    ELSE ApplyWrites(
            IF Head(ws).w = "insert" THEN rs \cup {Head(ws).row} ELSE rs \ {Head(ws).row},
            Tail(ws))

\* version is the table's PRIMARY KEY: an INSERT of a version some row
\* already holds fails.
InsertConflicts(rs, v) == \E r \in rs : r.version = v

\* ------------------------------------------------------------ work list
\* C2's mutant of IsTargetReached: up stops at the target itself.
IsTargetReachedUpExclusive(target, mig, direction) ==
    /\ target # <<>>
    /\ LET t == Atoi(target)
           v == Atoi(mig.Version)
       IN  (direction = "up" /\ v >= t) \/ (direction = "down" /\ v < t)

\* C3's mutant of IsTargetReached: down stops at the target itself.
IsTargetReachedDownExclusive(target, mig, direction) ==
    /\ target # <<>>
    /\ LET t == Atoi(target)
           v == Atoi(mig.Version)
       IN  (direction = "up" /\ v > t) \/ (direction = "down" /\ v <= t)

\* isTargetReached
IsTargetReached(target, mig, direction) ==
    /\ target # <<>>
    /\ LET t == Atoi(target)
           v == Atoi(mig.Version)
       IN  (direction = "up" /\ v > t) \/ (direction = "down" /\ v < t)

\* C32's mutant of NextWork: a migration counts as applied when some
\* applied version has its numeric value.
RECURSIVE NextWorkNumericApplied(_, _, _, _, _)
NextWorkNumericApplied(all, applied, target, op, from) ==
    IF from > Len(all) THEN 0
    ELSE IF (op = "up") = (\E a \in applied : Atoi(a) = Atoi(all[from].Version))
         THEN NextWorkNumericApplied(all, applied, target, op, from + 1)
         ELSE IF IsTargetReached(target, all[from], op) THEN 0 ELSE from

\* C1's mutant of NextWork: the loop ends at a migration it should skip.
NextWorkBreak(all, applied, target, op, from) ==
    IF from > Len(all) THEN 0
    ELSE IF (op = "up") = (all[from].Version \in applied) THEN 0
    ELSE IF IsTargetReached(target, all[from], op) THEN 0 ELSE from

\* C7's mutant of NextWork: the applied-set is not consulted.
NextWorkNoSkip(all, applied, target, op, from) ==
    IF from > Len(all) THEN 0
    ELSE IF IsTargetReached(target, all[from], op) THEN 0 ELSE from

\* C40's mutant of NextWork: rollbackMigrations passes over a migration
\* that has no down step.
RECURSIVE NextWorkSkipsNoDown(_, _, _, _, _)
NextWorkSkipsNoDown(all, applied, target, op, from) ==
    IF from > Len(all) THEN 0
    ELSE IF \/ (op = "up") = (all[from].Version \in applied)
            \/ (op = "down" /\ all[from].DownSteps = <<>>)
         THEN NextWorkSkipsNoDown(all, applied, target, op, from + 1)
         ELSE IF IsTargetReached(target, all[from], op) THEN 0 ELSE from

\* The loop heads of applyMigrations and rollbackMigrations: the index of
\* the next migration to execute from index `from` on, 0 when the loop ends.
RECURSIVE NextWork(_, _, _, _, _)
NextWork(all, applied, target, op, from) ==
    IF from > Len(all) THEN 0
    ELSE IF (op = "up") = (all[from].Version \in applied)
         THEN NextWork(all, applied, target, op, from + 1)
         ELSE IF IsTargetReached(target, all[from], op) THEN 0 ELSE from

StepsFor(mig, op) == IF op = "up" THEN mig.UpSteps ELSE mig.DownSteps

\* ------------------------------------------------------------------ Init
Idle ==
    [pc |-> "idle", op |-> "none", target |-> <<>>, all |-> <<>>, applied |-> {},
     i |-> 0, k |-> 0, txOpen |-> FALSE, writes |-> <<>>, err |-> NoErr,
     cancelled |-> FALSE]

NoCall ==
    [op |-> "none", target |-> <<>>, before |-> {}, existed |-> FALSE, wrote |-> {}, err |-> NoErr]

\* Every list of 1..MaxMigs migrations of a pool.
MigLists(pool) == UNION { [1..n -> pool] : n \in 1..MaxMigs }

\* Most rows the history table starts with.
MaxInitRows == 1

\* The tables the run may start from: under the primary key each version
\* is in at most one row.
InitialTables ==
    { rs \in SUBSET { Row(v, n) : v \in VersionPool, n \in MigrationNames } :
        /\ Cardinality(rs) <= MaxInitRows
        /\ \A r, q \in rs : r.version = q.version => r = q }

\* Every migration of a list comes from a source of its own.
OnePerSource(l) == [n \in 1..Len(l) |-> ListSource(<<l[n]>>)]

InitOn(cs, srcs, track, hms, tables) ==
    /\ sources \in srcs
    /\ tracking = track
    /\ transactional \in BOOLEAN
    /\ migrationName = "app"
    /\ historyManager \in hms
    /\ callers = cs
    /\ tableExists \in BOOLEAN
    /\ rows \in tables
    /\ tableExists = FALSE => rows = {}
    /\ call = [c \in AllCallers |-> Idle]
    /\ result = [c \in AllCallers |-> NotReturned]
    /\ log = [c \in AllCallers |-> <<>>]
    /\ sent = [c \in AllCallers |-> <<>>]
    /\ cur = [c \in AllCallers |-> NoCall]
    /\ prev = [c \in AllCallers |-> NoCall]
    /\ heap = <<>>
    /\ last = NoWith
    /\ files = <<>>
    /\ loaded = NotLoaded

\* The same with the tables of the version pool.
InitWith(cs, srcs, track, hms) ==
    InitOn(cs, srcs, IF track THEN "ok" ELSE "none", hms, InitialTables)

Init == InitWith({"c1"}, { OnePerSource(l) : l \in MigLists(MigPool) }, FALSE, {"sqlite"})


\* --------------------------------------------------------------- actions
Event(e, id, k, ok, via) == [e |-> e, id |-> id, k |-> k, ok |-> ok, via |-> via]

\* The ids whose history write succeeded in a log.
Wrote(lg) == { lg[n].id : n \in { m \in 1..Len(lg) : lg[m].e \in {"record", "remove"} /\ lg[m].ok } }

\* The call of caller c returns e.
Return(c, e) ==
    /\ call' = [call EXCEPT ![c] = Idle]
    /\ result' = [result EXCEPT ![c] = e]

\* A caller invokes MigrateUp or MigrateDown.
Invoke(c, op, target, pc) ==
    /\ c \in callers
    /\ call[c].pc = "idle"
    /\ call' = [call EXCEPT ![c] = [Idle EXCEPT !.pc = pc, !.op = op, !.target = target]]
    /\ result' = [result EXCEPT ![c] = NotReturned]
    /\ log' = [log EXCEPT ![c] = <<>>]
    /\ sent' = [sent EXCEPT ![c] = <<>>]
    /\ prev' = [prev EXCEPT ![c] =
                  IF tracking = "ok" /\ result[c] = NoErr
                  THEN [cur[c] EXCEPT !.wrote = Wrote(log[c])]
                  ELSE IF tracking = "failed" /\ result[c] \notin {NoErr, NotReturned}
                  THEN [cur[c] EXCEPT !.wrote = Wrote(log[c]), !.err = result[c]]
                  ELSE NoCall]
    /\ cur' = [cur EXCEPT ![c] = [op |-> op, target |-> target, before |-> rows,
                                  existed |-> tableExists, wrote |-> {}, err |-> NoErr]]
    /\ UNCHANGED <<config, aside, tableExists, rows>>

\* C20's mutant of MigrateUp: it starts with the load as MigrateDown does.
MigrateUpNoEnsure(c, target) == Invoke(c, "up", target, "load")

\* MigrateUp is called: its first operation is ensureHistoryTable.
MigrateUp(c, target) == Invoke(c, "up", target, "ensure")

\* C12's mutant of MigrateDown: it ensures the history table as MigrateUp does.
MigrateDownEnsures(c, target) == Invoke(c, "down", target, "ensure")

\* MigrateDown is called: its first operation is getAllAndAppliedMigrations.
MigrateDown(c, target) == Invoke(c, "down", target, "load")

\* C24's mutant of CreateTableIfNotExists: a plain CREATE TABLE, which the
\* database refuses when the table is there.
CreateTable(exists, rs) ==
    IF exists THEN [ok |-> FALSE, exists |-> TRUE, rows |-> rs]
    ELSE [ok |-> TRUE, exists |-> TRUE, rows |-> {}]

\* What the statement of EnsureHistoryTable, CREATE TABLE IF NOT EXISTS,
\* does to a database that executes it: a table that is there is left as
\* it is, one that is not is created empty.
CreateTableIfNotExists(exists, rs) ==
    [ok |-> TRUE, exists |-> TRUE, rows |-> IF exists THEN rs ELSE {}]

\* ensureHistoryTable: the statement is sent on the database handle; it may
\* fail there for reasons of the database's own.
EnsureHistoryTable(c) ==
    /\ call[c].pc = "ensure"
    /\ LET done == CreateTableIfNotExists(tableExists, rows)
       IN  \E ok \in BOOLEAN :
             /\ ok => (done.ok /\ ~call[c].cancelled)
             /\ log' = [log EXCEPT ![c] = Append(@, Event("ensure", 0, 0, ok, "db"))]
             /\ IF ok
                THEN /\ tableExists' = done.exists
                     /\ rows' = done.rows
                     /\ call' = [call EXCEPT ![c].pc = "load"]
                     /\ UNCHANGED result
                ELSE /\ Return(c, NewErr("ensure", 0, 0))
                     /\ UNCHANGED <<tableExists, rows>>
    /\ UNCHANGED <<config, aside, cur, prev, sent>>

\* getAllAndAppliedMigrations, a source failing to load.
LoadFails(c) ==
    /\ call[c].pc = "load"
    /\ Return(c, NewErr("load", 0, 0))
    /\ UNCHANGED <<config, aside, tableExists, rows, log, cur, prev, sent>>

\* getAllAndAppliedMigrations, LoadAllMigrations rejecting what it loaded.
ValidationFails(c) ==
    /\ call[c].pc = "load"
    /\ LoadAllMigrations(sources).err # NoErr
    /\ Return(c, LoadAllMigrations(sources).err)
    /\ UNCHANGED <<config, aside, tableExists, rows, log, cur, prev, sent>>

\* getAllAndAppliedMigrations, the applied query failing (always so when
\* the table is not there or the statement is refused).
QueryFails(c) ==
    /\ call[c].pc = "load"
    /\ LoadAllMigrations(sources).err = NoErr
    /\ log' = [log EXCEPT ![c] = Append(@, Event("query", 0, 0, FALSE, "db"))]
    /\ Return(c, NewErr("query", 0, 0))
    /\ UNCHANGED <<config, aside, tableExists, rows, cur, prev, sent>>

\* C39's mutant of WorkList: the two directions take each other's order.
WorkListSwapped(op, all) == IF op = "down" THEN all ELSE SortSlice(all, "down")

\* C11's mutant of WorkList: MigrateDown keeps the ascending order of the load.
WorkListAscending(op, all) == all

\* The list a call loops over: MigrateUp takes the loaded list as it is,
\* MigrateDown sorts it again, descending.
WorkList(op, all) == IF op = "down" THEN SortSlice(all, "down") ELSE all

\* C33's mutant of GetAllAndAppliedMigrations: a call reads the applied-set
\* only while no other call is in flight.
GetAllAndAppliedMigrationsAlone(c) ==
    /\ call[c].pc = "load"
    /\ \A d \in callers \ {c} : call[d].pc = "idle"
    /\ LoadAllMigrations(sources).err = NoErr
    /\ HistoryAppliedMigrations(historyManager, tableExists, rows, migrationName).ok
    /\ ~call[c].cancelled
    /\ log' = [log EXCEPT ![c] = Append(@, Event("query", 0, 0, TRUE, "db"))]
    /\ \E all \in SortSliceOutcomes(LoadAllMigrations(sources).all, "up") :
       \E work \in IF call[c].op = "down"
                    THEN SortSliceOutcomes(WorkList(call[c].op, all), "down")
                    ELSE { WorkList(call[c].op, all) } :
          call' = [call EXCEPT ![c].pc = "begin",
                               ![c].all = work,
                               ![c].applied = HistoryAppliedMigrations(
                                   historyManager, tableExists, rows, migrationName).versions]
    /\ UNCHANGED <<config, aside, tableExists, rows, result, cur, prev, sent>>

\* getAllAndAppliedMigrations succeeding, and the work list of the call.
GetAllAndAppliedMigrations(c) ==
    /\ call[c].pc = "load"
    /\ LoadAllMigrations(sources).err = NoErr
    /\ HistoryAppliedMigrations(historyManager, tableExists, rows, migrationName).ok
    /\ ~call[c].cancelled
    /\ log' = [log EXCEPT ![c] = Append(@, Event("query", 0, 0, TRUE, "db"))]
    /\ \E all \in SortSliceOutcomes(LoadAllMigrations(sources).all, "up") :
       \E work \in IF call[c].op = "down"
                    THEN SortSliceOutcomes(WorkList(call[c].op, all), "down")
                    ELSE { WorkList(call[c].op, all) } :
          call' = [call EXCEPT ![c].pc = "begin",
                               ![c].all = work,
                               ![c].applied = HistoryAppliedMigrations(
                                   historyManager, tableExists, rows, migrationName).versions]
    /\ UNCHANGED <<config, aside, tableExists, rows, result, cur, prev, sent>>

\* C29's mutant of Advance: the history write of a migration is issued
\* without its steps having been executed.
AdvanceSkipsSteps(cl, from) ==
    LET w == NextWork(cl.all, cl.applied, cl.target, cl.op, from)
    IN  IF w = 0 THEN [cl EXCEPT !.pc = "commit", !.i = 0, !.k = 0]
        ELSE [cl EXCEPT !.i = w, !.k = 1, !.pc = "history"]

\* The locals of a call once its loop has reached index `from`: at the next
\* migration to execute, or past the loop.
Advance(cl, from) ==
    LET w == NextWork(cl.all, cl.applied, cl.target, cl.op, from)
    IN  IF w = 0 THEN [cl EXCEPT !.pc = "commit", !.i = 0, !.k = 0]
        ELSE [cl EXCEPT !.i = w, !.k = 1,
                        !.pc = IF Len(StepsFor(cl.all[w], cl.op)) = 0 THEN "history" ELSE "steps"]

\* C18's mutant of Via: the loop is handed the database handle although a
\* transaction was begun.
ViaDB(cl) == "db"

\* The executor the loop is handed: the transaction, or the database handle.
Via(cl) == IF cl.txOpen THEN "tx" ELSE "db"

\* C5's mutant of OnError: the failure is dropped and the run goes on to commit.
OnErrorCommit(cl, e) == [cl EXCEPT !.pc = "commit"]

\* migrationFn returns an error: runMigrationsIfTransactional hands it to
\* rollbackIfTransactional.
OnError(cl, e) == [cl EXCEPT !.pc = "rollback", !.err = e]

\* C9's mutant of AfterStep: the error of a step is ignored.
AfterStepIgnoreErr(cl, mig, ok) ==
    IF cl.k < Len(StepsFor(mig, cl.op)) THEN [cl EXCEPT !.k = cl.k + 1]
    ELSE [cl EXCEPT !.pc = "history"]

\* The loop of executeSteps after one step: the error is returned, or the
\* next step is at hand, or all steps are done.
AfterStep(cl, mig, ok) ==
    IF ~ok THEN OnError(cl, NewErr("step", mig.id, cl.k))
    ELSE IF cl.k < Len(StepsFor(mig, cl.op)) THEN [cl EXCEPT !.k = cl.k + 1]
    ELSE [cl EXCEPT !.pc = "history"]

\* C36's mutant of GetTransactionIfTransactional: a transaction that could
\* not be begun is rolled back before the call returns.
GetTransactionRollsBack(c) ==
    /\ call[c].pc = "begin"
    /\ IF transactional
       THEN \E ok \in BOOLEAN :
              /\ ok => ~call[c].cancelled
              /\ log' = [log EXCEPT ![c] = Append(@, Event("begin", 0, 0, ok, "db"))]
              /\ call' = [call EXCEPT ![c] =
                              IF ok THEN Advance([call[c] EXCEPT !.txOpen = TRUE], 1)
                              ELSE [call[c] EXCEPT !.pc = "rollback", !.err = NewErr("begin", 0, 0)]]
              /\ UNCHANGED result
       ELSE /\ call' = [call EXCEPT ![c] = Advance(call[c], 1)]
            /\ UNCHANGED <<result, log>>
    /\ UNCHANGED <<config, aside, tableExists, rows, cur, prev, sent>>

\* C22's mutant of GetTransactionIfTransactional: a transaction is begun
\* whatever the Transactional flag says.
GetTransactionAlways(c) ==
    /\ call[c].pc = "begin"
    /\ \E ok \in BOOLEAN :
          /\ ok => ~call[c].cancelled
          /\ log' = [log EXCEPT ![c] = Append(@, Event("begin", 0, 0, ok, "db"))]
          /\ IF ok
             THEN /\ call' = [call EXCEPT ![c] = Advance([call[c] EXCEPT !.txOpen = TRUE], 1)]
                  /\ UNCHANGED result
             ELSE Return(c, NewErr("begin", 0, 0))
    /\ UNCHANGED <<config, aside, tableExists, rows, cur, prev, sent>>

\* getTransactionIfTransactional, then the loop up to its first migration.
GetTransactionIfTransactional(c) ==
    /\ call[c].pc = "begin"
    /\ IF transactional
       THEN \E ok \in BOOLEAN :
              /\ ok => ~call[c].cancelled
              /\ log' = [log EXCEPT ![c] = Append(@, Event("begin", 0, 0, ok, "db"))]
              /\ IF ok
                 THEN /\ call' = [call EXCEPT ![c] = Advance([call[c] EXCEPT !.txOpen = TRUE], 1)]
                      /\ UNCHANGED result
                 ELSE Return(c, NewErr("begin", 0, 0))
       ELSE /\ call' = [call EXCEPT ![c] = Advance(call[c], 1)]
            /\ UNCHANGED <<result, log>>
    /\ UNCHANGED <<config, aside, tableExists, rows, cur, prev, sent>>

\* The hook a hook step holds for a direction.
HookFor(step, op) == IF op = "up" THEN step.UpHook ELSE step.DownHook

\* C25's mutant of StepOutcomes: a hook step without a hook for the
\* direction is passed over as done.
StepOutcomesNilHookSkipped(step, op, cancelled) ==
    IF step.kind = "hook" THEN (IF HookFor(step, op) = NilHook THEN {TRUE} ELSE BOOLEAN)
    ELSE IF cancelled THEN {FALSE} ELSE BOOLEAN

\* ExecuteUp and ExecuteDown of a step, as success or error. A hook step
\* without a hook for the direction returns an error; a hook is a function
\* of the user and returns what it likes; a SQL step returns what
\* ExecContext returns, an error once the context is cancelled.
StepOutcomes(step, op, cancelled) ==
    IF step.kind = "hook" THEN (IF HookFor(step, op) = NilHook THEN {FALSE} ELSE BOOLEAN)
    ELSE IF cancelled THEN {FALSE} ELSE BOOLEAN

\* C27's mutant of Invoked: ExecuteDown sends no text.
InvokedDownEmpty(step, op, via, id, k) ==
    IF step.kind = "hook"
    THEN IF HookFor(step, op) = NilHook THEN <<>>
         ELSE << [what |-> "hook", fn |-> HookFor(step, op), via |-> via, id |-> id, k |-> k] >>
    ELSE << [what |-> "exec", sql |-> IF op = "down" THEN <<>> ELSE step.SQL,
             via |-> via, id |-> id, k |-> k] >>

\* What ExecuteUp and ExecuteDown of a step invoke: a SQL step sends its
\* text as one statement to the executor, in either direction; a hook step
\* calls its hook for the direction with the executor, or nothing when it
\* has none.
Invoked(step, op, via, id, k) ==
    IF step.kind = "hook"
    THEN IF HookFor(step, op) = NilHook THEN <<>>
         ELSE << [what |-> "hook", fn |-> HookFor(step, op), via |-> via, id |-> id, k |-> k] >>
    ELSE << [what |-> "exec", sql |-> step.SQL, via |-> via, id |-> id, k |-> k] >>

\* executeSteps: one step of the migration at hand runs on the executor.
ExecuteStep(c) ==
    /\ call[c].pc = "steps"
    /\ LET cl   == call[c]
           mig  == cl.all[cl.i]
           step == StepsFor(mig, cl.op)[cl.k]
       IN  \E ok \in StepOutcomes(step, cl.op, cl.cancelled) :
             /\ log' = [log EXCEPT ![c] = Append(@, Event("step", mig.id, cl.k, ok, Via(cl)))]
             /\ sent' = [sent EXCEPT ![c] = @ \o Invoked(step, cl.op, Via(cl), mig.id, cl.k)]
             /\ call' = [call EXCEPT ![c] = AfterStep(cl, mig, ok)]
    /\ UNCHANGED <<config, aside, tableExists, rows, result, cur, prev>>

\* The rows the executor of a call sees.
View(cl) == IF cl.txOpen THEN ApplyWrites(rows, cl.writes) ELSE rows

\* C34's mutant of Write: the applied-set of the call follows its inserts.
WriteUpdatesApplied(c, w, row) ==
    LET cl == IF w = "insert" THEN [call[c] EXCEPT !.applied = @ \cup {row.version}] ELSE call[c]
    IN  IF cl.txOpen
        THEN /\ call' = [call EXCEPT ![c] =
                    Advance([cl EXCEPT !.writes = Append(@, [w |-> w, row |-> row])], cl.i + 1)]
             /\ UNCHANGED rows
        ELSE /\ rows' = ApplyWrites(rows, << [w |-> w, row |-> row] >>)
             /\ call' = [call EXCEPT ![c] = Advance(cl, cl.i + 1)]

\* C35's mutant of FailedWrite: the row of a refused RecordMigration is in
\* the table all the same.
FailedWriteLeavesRow(c, e, row) ==
    /\ call' = [call EXCEPT ![c] = OnError(call[c], e)]
    /\ rows' = IF call[c].txOpen THEN rows ELSE rows \cup {row}

\* A history write of a call fails: the table is as it was, and the error
\* goes to the caller of the loop.
FailedWrite(c, e, row) ==
    /\ call' = [call EXCEPT ![c] = OnError(call[c], e)]
    /\ UNCHANGED rows

\* C38's mutant of Write: the row written or deleted is the one of the
\* version whatever its migration name, here the other stream's.
WriteAnyName(c, w, row) ==
    LET any == [row EXCEPT !.migration_name = "other"]
    IN  IF call[c].txOpen
        THEN /\ call' = [call EXCEPT ![c] =
                    Advance([call[c] EXCEPT !.writes = Append(@, [w |-> w, row |-> any])], call[c].i + 1)]
             /\ UNCHANGED rows
        ELSE /\ rows' = ApplyWrites(rows, << [w |-> w, row |-> any] >>)
             /\ call' = [call EXCEPT ![c] = Advance(call[c], call[c].i + 1)]

\* C4's mutant of Write: the write goes to the database handle, not the executor.
WriteOnDB(c, w, row) ==
    /\ rows' = ApplyWrites(rows, << [w |-> w, row |-> row] >>)
    /\ call' = [call EXCEPT ![c] = Advance(call[c], call[c].i + 1)]

\* C6's mutant of Write: the write waits for a commit in either mode.
WriteBuffered(c, w, row) ==
    /\ call' = [call EXCEPT ![c] =
           Advance([call[c] EXCEPT !.writes = Append(@, [w |-> w, row |-> row])], call[c].i + 1)]
    /\ UNCHANGED rows

\* A history write of a call: through the transaction it is buffered,
\* on the database handle it is committed at once.
Write(c, w, row) ==
    IF call[c].txOpen
    THEN /\ call' = [call EXCEPT ![c] =
                Advance([call[c] EXCEPT !.writes = Append(@, [w |-> w, row |-> row])], call[c].i + 1)]
         /\ UNCHANGED rows
    ELSE /\ rows' = ApplyWrites(rows, << [w |-> w, row |-> row] >>)
         /\ call' = [call EXCEPT ![c] = Advance(call[c], call[c].i + 1)]

\* executeAndRecordMigration after the steps: RecordMigration, an INSERT.
RecordMigration(c) ==
    /\ call[c].pc = "history"
    /\ call[c].op = "up"
    /\ LET cl  == call[c]
           mig == cl.all[cl.i]
       IN  \E ok \in BOOLEAN :
             /\ ok => ~InsertConflicts(View(cl), mig.Version)
             /\ ok => ~cl.cancelled
             /\ log' = [log EXCEPT ![c] = Append(@, Event("record", mig.id, 0, ok, Via(cl)))]
             /\ IF ok
                THEN Write(c, "insert", Row(mig.Version, migrationName))
                ELSE FailedWrite(c, NewErr("record", mig.id, 0), Row(mig.Version, migrationName))
    /\ UNCHANGED <<config, aside, tableExists, result, cur, prev, sent>>

\* rollbackAndRemoveMigration after the steps: RemoveMigration, a DELETE.
RemoveMigration(c) ==
    /\ call[c].pc = "history"
    /\ call[c].op = "down"
    /\ LET cl  == call[c]
           mig == cl.all[cl.i]
       IN  \E ok \in BOOLEAN :
             /\ ok => ~cl.cancelled
             /\ log' = [log EXCEPT ![c] = Append(@, Event("remove", mig.id, 0, ok, Via(cl)))]
             /\ IF ok
                THEN Write(c, "delete", Row(mig.Version, migrationName))
                ELSE FailedWrite(c, NewErr("remove", mig.id, 0), Row(mig.Version, migrationName))
    /\ UNCHANGED <<config, aside, tableExists, result, cur, prev, sent>>

\* C37's mutant of CommitIfTransactional: a commit that fails is followed
\* by a rollback.
CommitThenRollback(c) ==
    /\ call[c].pc = "commit"
    /\ IF transactional
       THEN \E ok \in BOOLEAN :
              /\ ok => ~call[c].cancelled
              /\ log' = [log EXCEPT ![c] = Append(@, Event("commit", 0, 0, ok, "tx"))]
              /\ rows' = IF ok THEN ApplyWrites(rows, call[c].writes) ELSE rows
              /\ IF ok THEN Return(c, NoErr)
                 ELSE /\ call' = [call EXCEPT ![c] = [call[c] EXCEPT !.pc = "rollback",
                                                                    !.err = NewErr("commit", 0, 0)]]
                      /\ UNCHANGED result
       ELSE /\ Return(c, NoErr)
            /\ UNCHANGED <<rows, log>>
    /\ UNCHANGED <<config, aside, tableExists, cur, prev, sent>>

\* commitIfTransactional, and the call returns.
CommitIfTransactional(c) ==
    /\ call[c].pc = "commit"
    /\ IF transactional
       THEN \E ok \in BOOLEAN :
              /\ ok => ~call[c].cancelled
              /\ log' = [log EXCEPT ![c] = Append(@, Event("commit", 0, 0, ok, "tx"))]
              /\ rows' = IF ok THEN ApplyWrites(rows, call[c].writes) ELSE rows
              /\ Return(c, IF ok THEN NoErr ELSE NewErr("commit", 0, 0))
       ELSE /\ Return(c, NoErr)
            /\ UNCHANGED <<rows, log>>
    /\ UNCHANGED <<config, aside, tableExists, cur, prev, sent>>

\* rollbackIfTransactional, and the call returns.
RollbackIfTransactional(c) ==
    /\ call[c].pc = "rollback"
    /\ IF transactional
       THEN \E ok \in BOOLEAN :
              /\ log' = [log EXCEPT ![c] = Append(@, Event("rollback", 0, 0, ok, "tx"))]
              /\ Return(c, IF ok THEN call[c].err ELSE CompositeErr(call[c].err))
       ELSE /\ Return(c, call[c].err)
            /\ UNCHANGED log
    /\ UNCHANGED <<config, aside, tableExists, rows, cur, prev, sent>>

\* The context of a call in flight is cancelled: every operation that is
\* given the context fails from then on (ExecContext, QueryContext and
\* BeginTx return its error, Commit of a transaction begun with it too).
Cancel(c) ==
    /\ call[c].pc # "idle"
    /\ ~call[c].cancelled
    /\ call' = [call EXCEPT ![c].cancelled = TRUE]
    /\ log' = [log EXCEPT ![c] = Append(@, Event("cancel", 0, 0, TRUE, "ctx"))]
    /\ UNCHANGED <<config, aside, tableExists, rows, result, cur, prev, sent>>

Next ==
    \E c \in callers :
        \/ \E t \in Targets : MigrateUp(c, t)
        \/ \E t \in Targets : MigrateDown(c, t)
        \/ EnsureHistoryTable(c)
        \/ LoadFails(c)
        \/ ValidationFails(c)
        \/ QueryFails(c)
        \/ GetAllAndAppliedMigrations(c)
        \/ GetTransactionIfTransactional(c)
        \/ ExecuteStep(c)
        \/ RecordMigration(c)
        \/ RemoveMigration(c)
        \/ CommitIfTransactional(c)
        \/ RollbackIfTransactional(c)

Spec == Init /\ [][Next]_vars

\* The migrations two calls in a row are checked on: one up step and one
\* down step each, or no step at all.
SeqPool == { NewMigration(v, n, n) : v \in VersionPool, n \in 0..1 }

\* The specification of two calls in a row: the call before is remembered.
InitSeq == InitWith({"c1"}, { OnePerSource(l) : l \in MigLists(SeqPool) }, TRUE, {"sqlite"})

SpecSeq == InitSeq /\ [][Next]_vars

\* The migrations the load is checked on: with one up step, or with none.
LoadPool == { NewMigration(v, nu, 0) : v \in VersionPool, nu \in 0..1 }

\* Every way of cutting a list into sources, each returning a piece of it.
RECURSIVE Splits(_)
Splits(l) ==
    {<< ListSource(l) >>} \cup
    UNION { { << ListSource(SubSeq(l, 1, n)) >> \o rest : rest \in Splits(SubSeq(l, n + 1, Len(l))) } :
            n \in 1..(Len(l) - 1) }

\* The specification of the load: up to MaxMigs + 1 migrations, spread over
\* the sources in every way, with the history table there and empty.
InitLoad ==
    /\ InitWith({"c1"},
                UNION { Splits(l) : l \in UNION { [1..n -> LoadPool] : n \in 1..(MaxMigs + 1) } },
                FALSE, {"sqlite"})
    /\ transactional = FALSE
    /\ tableExists
    /\ rows = {}

SpecLoad == InitLoad /\ [][Next]_vars

\* The hook steps the hooks are checked on: each hook is set or not.
HookSteps ==
    { [NewHookMigrationStep EXCEPT !.UpHook = u, !.DownHook = d] : u \in {NilHook, Hook("f", <<>>)}, d \in {NilHook, Hook("g", <<>>)} }

\* Migrations with a hook step: after a SQL step in the up list, alone in
\* the down list.
HookPool ==
    { [Version |-> v, UpSteps |-> << NewSQLMigrationStep(<<"U">> \o v), h >>, DownSteps |-> << h >>] :
        v \in { <<"1">>, <<"0", "2">> }, h \in HookSteps }

\* The specification of hook steps, the history table there and empty.
InitHooks ==
    /\ InitWith({"c1"}, { OnePerSource(l) : l \in MigLists(HookPool) }, FALSE, {"sqlite"})
    /\ tableExists
    /\ rows = {}

SpecHooks == InitHooks /\ [][Next]_vars

\* The literal sources the texts are checked on: the up text and the down
\* text differ or are the same.
VarSources ==
    { NewVarMigrationSource(v, <<"n">>, u, d) :
        v \in { <<"1">>, <<"0", "2">> }, u \in { <<"u">>, <<"x">> }, d \in { <<"d">>, <<"x">> } }

\* The specification of literal sources, the history table there and empty.
InitVar ==
    /\ InitWith({"c1"}, UNION { [1..n -> VarSources] : n \in 1..MaxMigs }, FALSE, {"sqlite"})
    /\ tableExists
    /\ rows = {}

SpecVar == InitVar /\ [][Next]_vars

\* The decimal numeral of a number below 100.
Itoa(n) ==
    IF n < 10 THEN << Digits[n + 1] >>
    ELSE << Digits[(n \div 10) + 1], Digits[(n % 10) + 1] >>

\* One more migration than sort.Slice sorts by insertion, from one source:
\* the versions count down from MaxInsertion + 1, but for the last two,
\* which do not parse and so share the sort key 0.
ManyMigrations ==
    [n \in 1..(MaxInsertion + 1) |->
        NewMigration(IF n = MaxInsertion THEN <<"a">>
                     ELSE IF n = MaxInsertion + 1 THEN <<"b">>
                     ELSE Itoa(MaxInsertion + 2 - n), 1, 1)]

\* The specification of a long list of migrations.
InitMany ==
    /\ InitWith({"c1"}, { << ListSource(ManyMigrations) >> }, FALSE, {"sqlite"})
    /\ tableExists
    /\ rows = {}

SpecMany == InitMany /\ [][Next]_vars

\* The specification of calls whose context may be cancelled.
NextCancel == Next \/ \E c \in callers : Cancel(c)

InitCancel == InitWith({"c1"}, { OnePerSource(l) : l \in MigLists(SeqPool) }, FALSE, {"sqlite"})

SpecCancel == InitCancel /\ [][NextCancel]_vars

\* The specification of the two history managers: the Migrator is built
\* with either of them.
InitManagers == InitWith({"c1"}, { OnePerSource(l) : l \in MigLists(SeqPool) }, FALSE, HistoryManagers)

SpecManagers == InitManagers /\ [][Next]_vars


\* ------------------------------------------------- the With methods run
\* The variables of the Migrator's calls.
run == <<config, tableExists, rows, call, result, log, sent, cur, prev>>

\* No Migrator is at work.
NoMigratorCalls ==
    /\ sources = <<>>
    /\ tracking = "none"
    /\ transactional = FALSE
    /\ migrationName = "app"
    /\ historyManager = "sqlite"
    /\ callers = {}
    /\ tableExists = FALSE
    /\ rows = {}
    /\ call = [c \in AllCallers |-> Idle]
    /\ result = [c \in AllCallers |-> NotReturned]
    /\ log = [c \in AllCallers |-> <<>>]
    /\ sent = [c \in AllCallers |-> <<>>]
    /\ cur = [c \in AllCallers |-> NoCall]
    /\ prev = [c \in AllCallers |-> NoCall]

\* new := *m; new.F = v; return &new: the receiver is copied into a new
\* object, the field is set on the copy, the address of the copy returned.
CopyWith(method, type, recv, field, value) ==
    /\ last.n < MaxBuilds
    /\ heap[recv].type = type
    /\ heap' = Append(heap, [heap[recv] EXCEPT !.obj[field] = value])
    /\ last' = [n |-> last.n + 1, method |-> method, recv |-> recv, ret |-> Len(heap) + 1,
                before |-> heap]
    /\ UNCHANGED <<run, files, loaded>>

\* new := h; new.F = v; return new, with h a pointer: new is the same
\* pointer, the field is set on the receiver, the receiver returned.
PointerWith(method, type, recv, field, value) ==
    /\ last.n < MaxBuilds
    /\ heap[recv].type = type
    /\ heap' = [heap EXCEPT ![recv].obj[field] = value]
    /\ last' = [n |-> last.n + 1, method |-> method, recv |-> recv, ret |-> recv,
                before |-> heap]
    /\ UNCHANGED <<run, files, loaded>>

WithSources(recv, srcs) == CopyWith("Migrator.WithSources", "Migrator", recv, "Sources", srcs)

WithDB(recv, db) == CopyWith("Migrator.WithDB", "Migrator", recv, "DB", db)

WithHistoryTable(recv, historyTable) ==
    CopyWith("Migrator.WithHistoryTable", "Migrator", recv, "HistoryTable", historyTable)

WithHistoryManager(recv, hm) ==
    CopyWith("Migrator.WithHistoryManager", "Migrator", recv, "HistoryManager", hm)

WithMigrationName(recv, name) ==
    CopyWith("Migrator.WithMigrationName", "Migrator", recv, "MigrationName", name)

WithTransactional(recv, flag) ==
    CopyWith("Migrator.WithTransactional", "Migrator", recv, "Transactional", flag)

WithVersion(recv, version) == CopyWith("Migration.WithVersion", "Migration", recv, "Version", version)

WithName(recv, name) == CopyWith("Migration.WithName", "Migration", recv, "Name", name)

WithUpSteps(recv, steps) == CopyWith("Migration.WithUpSteps", "Migration", recv, "UpSteps", steps)

WithDownSteps(recv, steps) ==
    CopyWith("Migration.WithDownSteps", "Migration", recv, "DownSteps", steps)

WithSQL(recv, sql) == CopyWith("SQLMigrationStep.WithSQL", "SQLMigrationStep", recv, "SQL", sql)

WithUpHook(recv, upHook) ==
    PointerWith("HookMigrationStep.WithUpHook", "HookMigrationStep", recv, "UpHook", upHook)

WithDownHook(recv, downHook) ==
    PointerWith("HookMigrationStep.WithDownHook", "HookMigrationStep", recv, "DownHook", downHook)

DirWithFilenameParser(recv, parser) ==
    CopyWith("DirMigrationSource.WithFilenameParser", "DirMigrationSource", recv,
             "FilenameParser", parser)

WithAllowedExts(recv, exts) ==
    CopyWith("DirMigrationSource.WithAllowedExts", "DirMigrationSource", recv, "AllowedExts", exts)

FileWithFilenameParser(recv, parser) ==
    CopyWith("FileMigrationSource.WithFilenameParser", "FileMigrationSource", recv,
             "FilenameParser", parser)

WithPreHook(recv, hook) ==
    CopyWith("FileMigrationSource.WithPreHook", "FileMigrationSource", recv, "PreHook", hook)

WithPostHook(recv, hook) ==
    CopyWith("FileMigrationSource.WithPostHook", "FileMigrationSource", recv, "PostHook", hook)

\* The step lists, the hooks and the extension lists the With methods are
\* called with.
StepLists == { <<>>, << NewSQLMigrationStep(<<"B">>) >> }

HookFns == { NilHook, Hook("f", <<>>), Hook("g", <<>>) }

ExtLists == { NilSlice, Slice(<< <<".", "s", "q", "l">> >>) }

NextBuilders ==
    \E recv \in DOMAIN heap :
        \/ \E srcs \in {"s1", "s2"} : WithSources(recv, srcs)
        \/ \E db \in {"db", "db2"} : WithDB(recv, db)
        \/ \E t \in {"t", "t2"} : WithHistoryTable(recv, t)
        \/ \E hm \in {"sqlite", "mysql"} : WithHistoryManager(recv, hm)
        \/ \E name \in MigrationNames : WithMigrationName(recv, name)
        \/ \E flag \in BOOLEAN : WithTransactional(recv, flag)
        \/ \E version \in VersionPool : WithVersion(recv, version)
        \/ \E name \in { <<"a">>, <<"b">> } : WithName(recv, name)
        \/ \E steps \in StepLists : WithUpSteps(recv, steps)
        \/ \E steps \in StepLists : WithDownSteps(recv, steps)
        \/ \E sql \in { <<"A">>, <<"B">> } : WithSQL(recv, sql)
        \/ \E h \in HookFns : WithUpHook(recv, h)
        \/ \E h \in HookFns : WithDownHook(recv, h)
        \/ \E parser \in {"nil", "default"} : DirWithFilenameParser(recv, parser)
        \/ \E exts \in ExtLists : WithAllowedExts(recv, exts)
        \/ \E parser \in {"nil", "default"} : FileWithFilenameParser(recv, parser)
        \/ \E hook \in {"nil", "pre"} : WithPreHook(recv, hook)
        \/ \E hook \in {"nil", "post"} : WithPostHook(recv, hook)

InitBuilders ==
    /\ NoMigratorCalls
    /\ heap = Constructed
    /\ last = NoWith
    /\ files = <<>>
    /\ loaded = NotLoaded

SpecBuilders == InitBuilders /\ [][NextBuilders]_vars

\* ------------------------------------------------ the file sources load
\* What is in the directory at most, in the order of the names (the order
\* os.ReadDir lists it in): name, kind and content of each entry.
Entry(name, content) == [name |-> name, isDir |-> FALSE, content |-> content]

FilePool ==
    << Entry(<<"0", "1", "_", "c", "_", "u", "p", ".", "s", "q", "l">>, <<"C">>),
       Entry(<<"1", "_", "a", "_", "d", "o", "w", "n", ".", "S", "Q", "L">>, <<"D">>),
       Entry(<<"1", "_", "a", "_", "u", "p", ".", "s", "q", "l">>,
             <<"U", "\n", "-", "-", " ", "D", "O", "W", "N", "\n", "V", " ">>),
       Entry(<<"1", "_", "b", "_", "U", "P", ".", "s", "q", "l">>, <<"W">>),
       Entry(<<"2", "_", "x", "_", "y", "_", "d", "o", "w", "n", ".", "s", "q", "l", "i", "t", "e">>,
             <<"X">>),
       Entry(<<"3", "_", "c", "_", "u", "p", ".", "t", "x", "t">>, <<"T">>),
       Entry(<<"a", "_", "b", ".", "s", "q", "l">>, <<"Y">>),
       [name |-> <<"s", "u", "b">>, isDir |-> TRUE, content |-> <<>>] >>

\* The n-th smallest member of a set of numbers.
Nth(S, n) == CHOOSE i \in S : Cardinality({ j \in S : j < i }) = n - 1

\* The directories of the model: up to MaxFiles entries of the pool.
Listings ==
    { [n \in 1..Cardinality(S) |-> FilePool[Nth(S, n)]] :
        S \in { T \in SUBSET DOMAIN FilePool : Cardinality(T) <= MaxFiles } }

\* The directory the sources of the model read.
Dir == <<"m">>

\* The directory sources of the model.
DirSources ==
    { [NewDirMigrationSource(Dir) EXCEPT !.FilenameParser = parser, !.AllowedExts = exts,
                                         !.ResolveHooks = resolver] :
        parser \in {"nil", "default"}, exts \in ExtLists \cup {DefaultExts},
        resolver \in {"nil", "both", "pre", "post", "one"} }

\* The single-file sources of the model: one for every path in the directory.
FileSources ==
    { [NewFileMigrationSource(PathJoin(Dir, FilePool[n].name))
          EXCEPT !.FilenameParser = parser, !.PreHook = pre, !.PostHook = post] :
        n \in DOMAIN FilePool, parser \in {"nil", "default"}, pre \in {"nil", "pre"},
        post \in {"nil", "post"} }

\* LoadMigrations of a directory source returns migrations.
DirSourceLoadMigrations(d) ==
    /\ loaded.n < MaxLoads
    /\ \E migs \in DirLoadMigrations(d, files) :
          loaded' = [n |-> loaded.n + 1, by |-> "dir", src |-> d, err |-> FALSE, migs |-> migs]
    /\ UNCHANGED <<run, heap, last, files>>

\* LoadMigrations of a directory source returns the error of os.ReadDir or
\* of os.ReadFile.
DirSourceLoadFails(d) ==
    /\ loaded.n < MaxLoads
    /\ loaded' = [n |-> loaded.n + 1, by |-> "dir", src |-> d, err |-> TRUE, migs |-> <<>>]
    /\ UNCHANGED <<run, heap, last, files>>

\* LoadMigrations of a single-file source whose file is there.
FileSourceLoadMigrations(f) ==
    /\ loaded.n < MaxLoads
    /\ \E n \in DOMAIN files :
          /\ ~files[n].isDir
          /\ PathJoin(Dir, files[n].name) = f.FilePath
          /\ loaded' = [n |-> loaded.n + 1, by |-> "file", src |-> f, err |-> FALSE,
                        migs |-> FileLoadMigrations(f, files[n].content)]
    /\ UNCHANGED <<run, heap, last, files>>

\* LoadMigrations of a single-file source returns the error of os.ReadFile.
FileSourceLoadFails(f) ==
    /\ loaded.n < MaxLoads
    /\ loaded' = [n |-> loaded.n + 1, by |-> "file", src |-> f, err |-> TRUE, migs |-> <<>>]
    /\ UNCHANGED <<run, heap, last, files>>

NextSources ==
    \/ \E d \in DirSources : DirSourceLoadMigrations(d)
    \/ \E d \in DirSources : DirSourceLoadFails(d)
    \/ \E f \in FileSources : FileSourceLoadMigrations(f)
    \/ \E f \in FileSources : FileSourceLoadFails(f)

InitSources ==
    /\ NoMigratorCalls
    /\ heap = <<>>
    /\ last = NoWith
    /\ files \in Listings
    /\ loaded = NotLoaded

SpecSources == InitSources /\ [][NextSources]_vars

\* The versions the parse rule is checked on: a number, a text that is no
\* number, and a digit string past the int range.
RangeVersions == { <<"1">>, <<"a">>, <<"9", "9", "9", "9", "9">> }

\* The migrations of that specification: one step each way.
RangePool == { NewMigration(v, 1, 1) : v \in RangeVersions }

\* MigrateUp and MigrateDown are also called with those versions as target.
NextRange ==
    \/ Next
    \/ \E c \in callers : \E t \in RangeVersions : MigrateUp(c, t)
    \/ \E c \in callers : \E t \in RangeVersions : MigrateDown(c, t)

\* The specification of the parse rule: the history table is there.
InitRange ==
    /\ InitWith({"c1"}, { OnePerSource(l) : l \in MigLists(RangePool) }, FALSE, {"sqlite"})
    /\ tableExists

SpecRange == InitRange /\ [][NextRange]_vars

\* The migrations string identity is checked on: zero-padded versions.
PaddedPool == { NewMigration(v, 1, 1) : v \in { <<"0", "1">>, <<"0", "2">> } }

\* The tables of that specification: at most one row, of a version written
\* with or without padding.
PaddedTables ==
    { {} } \cup { { Row(v, "app") } : v \in { <<"1">>, <<"0", "1">>, <<"0", "2">> } }

\* MigrateUp and MigrateDown are also called with the unpadded target.
NextPadded ==
    \/ Next
    \/ \E c \in callers : MigrateUp(c, <<"2">>)
    \/ \E c \in callers : MigrateDown(c, <<"2">>)

InitPadded ==
    /\ InitOn({"c1"}, { OnePerSource(l) : l \in MigLists(PaddedPool) }, "none", {"sqlite"},
              PaddedTables)
    /\ tableExists

SpecPadded == InitPadded /\ [][NextPadded]_vars

\* The migration two concurrent callers are checked on: one up step, one
\* down step.
TwoPool == { NewMigration(<<"1">>, 1, 1) }

\* The specification of two callers of one Migrator: their calls interleave
\* operation by operation; the history table is there and empty.
InitTwo ==
    /\ InitWith({"c1", "c2"}, { OnePerSource(<<m>>) : m \in TwoPool }, FALSE, {"sqlite"})
    /\ tableExists
    /\ rows = {}

SpecTwo == InitTwo /\ [][Next]_vars

\* The migrations a call after a failed call is checked on: one or two up
\* steps.
RetryPool == { NewMigration(v, n, 0) : v \in { <<"1">>, <<"0", "2">> }, n \in 1..MaxSteps }

\* The specification of the call after a failed call: the failed call is
\* remembered; the mode is non-transactional, the table there and empty.
InitRetry ==
    /\ InitOn({"c1"}, { OnePerSource(l) : l \in MigLists(RetryPool) }, "failed", {"sqlite"},
              { {} })
    /\ ~transactional
    /\ tableExists

SpecRetry == InitRetry /\ [][Next]_vars

\* Three migrations of distinct numeric versions, in every order of
\* registration.
PrefixVersions == << <<"1">>, <<"0", "2">>, <<"3">> >>

PrefixLists ==
    { [n \in 1..3 |-> NewMigration(PrefixVersions[p[n]], 1, 1)] :
        p \in { q \in [1..3 -> 1..3] : \A a, b \in 1..3 : q[a] = q[b] => a = b } }

\* The tables in which the versions applied under the Migrator's name are
\* the first n of the ascending order, alone or next to a row of the other
\* stream.
PrefixTables ==
    LET own(n) == { Row(PrefixVersions[k], "app") : k \in 1..n }
    IN  { own(n) : n \in 0..3 } \cup { own(n) \cup { Row(<<"0", "2">>, "other") } : n \in 0..1 }

InitPrefix ==
    /\ InitOn({"c1"}, { OnePerSource(l) : l \in PrefixLists }, "none", {"sqlite"}, PrefixTables)
    /\ tableExists

SpecPrefix == InitPrefix /\ [][Next]_vars

\* ---------------------------------------------------------------- claims
\* What the claims read off a call.
Loaded == Discovered(sources)

LoadedIds == 1..Len(Loaded)

Num(id) == Atoi(Loaded[id].Version)

Returned(c) == call[c].pc = "idle" /\ result[c].kind # "none"

Succeeded(c) == call[c].pc = "idle" /\ result[c] = NoErr

AppliedAtStart(c) == AppliedMigrations(cur[c].before, migrationName)

Positions(c) == 1..Len(log[c])

\* Some step of migration id was executed.
Touched(c, id) == \E n \in Positions(c) : log[c][n].e = "step" /\ log[c][n].id = id

\* Every step of migration id in direction op was executed without an error.
AllStepsRan(c, id, op) ==
    \A k \in 1..Len(StepsFor(Loaded[id], op)) :
        \E n \in Positions(c) :
            log[c][n].e = "step" /\ log[c][n].id = id /\ log[c][n].k = k /\ log[c][n].ok

\* A history write of kind e was issued for migration id.
Issued(c, e, id) == \E n \in Positions(c) : log[c][n].e = e /\ log[c][n].id = id

\* The history write of kind e for migration id was issued and succeeded.
Written(c, e, id) == \E n \in Positions(c) : log[c][n].e = e /\ log[c][n].id = id /\ log[c][n].ok

Count(c, e) == Cardinality({ n \in Positions(c) : log[c][n].e = e })

SomeFailure(c) ==
    \E n \in Positions(c) : log[c][n].e \in {"step", "record", "remove"} /\ ~log[c][n].ok

\* C1: after MigrateUp with the empty target returns success, every loaded
\* migration whose Version was not in the applied-set at the start has had
\* all its up steps executed and RecordMigration issued, and no loaded
\* migration whose Version was in the applied-set has had a step executed.
C1_UpAppliesEveryPending ==
    \A c \in callers :
        (Succeeded(c) /\ cur[c].op = "up" /\ cur[c].target = <<>>) =>
            \A id \in LoadedIds :
                IF Loaded[id].Version \in AppliedAtStart(c)
                THEN ~Touched(c, id) /\ ~Issued(c, "record", id)
                ELSE AllStepsRan(c, id, "up") /\ Issued(c, "record", id)

\* C1's case: a successful MigrateUp("") that skipped an applied migration
\* and then applied a pending one.
C1_Witness ==
    \E c \in callers :
        /\ Succeeded(c) /\ cur[c].op = "up" /\ cur[c].target = <<>>
        /\ \E a, b \in LoadedIds :
            /\ Num(a) < Num(b)
            /\ Loaded[a].Version \in AppliedAtStart(c)
            /\ Loaded[b].Version \notin AppliedAtStart(c)
            /\ Written(c, "record", b)

\* C2: MigrateUp with a non-empty target T never executes a step of, nor
\* records, a migration whose numeric version is greater than T, and on
\* success has applied every pending migration whose numeric version is at
\* most T.
C2_UpStopsAfterTarget ==
    \A c \in callers :
        (cur[c].op = "up" /\ cur[c].target # <<>>) =>
            \A id \in LoadedIds :
                /\ Num(id) > Atoi(cur[c].target) =>
                      ~Touched(c, id) /\ ~Issued(c, "record", id)
                /\ (Succeeded(c) /\ Num(id) <= Atoi(cur[c].target)
                      /\ Loaded[id].Version \notin AppliedAtStart(c)) =>
                      AllStepsRan(c, id, "up") /\ Written(c, "record", id)

\* C2's case: a successful MigrateUp(T) that applied the migration at T and
\* left a pending migration above T alone.
C2_Witness ==
    \E c \in callers :
        /\ Succeeded(c) /\ cur[c].op = "up" /\ cur[c].target # <<>>
        /\ \E a, b \in LoadedIds :
            /\ Num(a) = Atoi(cur[c].target) /\ Written(c, "record", a)
            /\ Num(b) > Atoi(cur[c].target)
            /\ Loaded[b].Version \notin AppliedAtStart(c)

C4_TxFailureLeavesHistory ==
    \A c \in callers :
        (transactional /\ Returned(c) /\ SomeFailure(c)) => rows = cur[c].before

\* C4's case: a transactional call that recorded or removed one migration
\* and then failed.
C4_Witness ==
    \E c \in callers :
        /\ transactional /\ Returned(c) /\ SomeFailure(c)
        /\ \E id \in LoadedIds : Written(c, "record", id) \/ Written(c, "remove", id)

\* C5: in transactional mode every transaction a call has begun gets
\* exactly one of Commit and Rollback, once, before the call returns:
\* Commit if and only if every step and history write succeeded.
C5_OneCommitOrRollback ==
    \A c \in callers :
        (\E n \in Positions(c) : log[c][n].e = "begin" /\ log[c][n].ok) =>
            IF Returned(c)
            THEN /\ Count(c, "commit") + Count(c, "rollback") = 1
                 /\ Count(c, "commit") = 1 <=> ~SomeFailure(c)
            ELSE Count(c, "commit") + Count(c, "rollback") = 0

\* C5's case: a transaction rolled back after a failure.
C5_Witness ==
    \E c \in callers :
        /\ Returned(c) /\ SomeFailure(c)
        /\ Count(c, "begin") = 1 /\ Count(c, "rollback") = 1 /\ Count(c, "commit") = 0

\* C6: in non-transactional mode, when MigrateUp fails at a later
\* migration, every earlier migration of the run keeps its history row,
\* and no rollback is attempted.
C6_NonTxKeepsEarlier ==
    \A c \in callers :
        (~transactional /\ cur[c].op = "up" /\ Returned(c) /\ result[c] # NoErr) =>
            /\ \A id \in LoadedIds :
                  Written(c, "record", id) => Row(Loaded[id].Version, migrationName) \in rows
            /\ Count(c, "rollback") = 0
            /\ \A n \in Positions(c) : log[c][n].e # "remove" /\ log[c][n].via = "db"

\* C6's case: a non-transactional MigrateUp that recorded one migration and
\* failed at the next.
C6_Witness ==
    \E c \in callers :
        /\ ~transactional /\ cur[c].op = "up" /\ Returned(c) /\ SomeFailure(c)
        /\ \E id \in LoadedIds :
            /\ Written(c, "record", id)
            /\ Row(Loaded[id].Version, migrationName) \notin cur[c].before

\* C7: a MigrateUp right after a successful MigrateUp with the same target
\* executes no step and issues no history write.
C7_UpIdempotent ==
    \A c \in callers :
        (prev[c].op = "up" /\ cur[c].op = "up" /\ prev[c].target = cur[c].target) =>
            \A n \in Positions(c) : log[c][n].e \notin {"step", "record", "remove"}

\* C7's case: the second of two successful MigrateUp calls with one target,
\* the first of which applied a migration.
C7_Witness ==
    \E c \in callers :
        /\ prev[c].op = "up" /\ cur[c].op = "up" /\ prev[c].target = cur[c].target
        /\ prev[c].wrote # {}
        /\ Succeeded(c)

\* C8: a successful MigrateUp that applies migrations, then a successful
\* MigrateDown that rolls the same migrations back, leaves the history rows
\* as they were before the MigrateUp.
C8_UpDownRoundTrip ==
    \A c \in callers :
        (prev[c].op = "up" /\ prev[c].wrote # {} /\ cur[c].op = "down"
            /\ Succeeded(c) /\ Wrote(log[c]) = prev[c].wrote) =>
            /\ rows = prev[c].before
            /\ \A id \in prev[c].wrote :
                  Loaded[id].Version \notin AppliedMigrations(rows, migrationName)

\* C8's case: such a round trip.
C8_Witness ==
    \E c \in callers :
        /\ prev[c].op = "up" /\ prev[c].wrote # {} /\ cur[c].op = "down"
        /\ Succeeded(c) /\ Wrote(log[c]) = prev[c].wrote

\* After a failed step nothing but the rollback follows in the log.
NothingAfterFailedStep(c) ==
    \A n \in Positions(c) :
        (log[c][n].e = "step" /\ ~log[c][n].ok) =>
            /\ \A m \in Positions(c) : m > n => log[c][m].e = "rollback"
            /\ ~Issued(c, "record", log[c][n].id) /\ ~Issued(c, "remove", log[c][n].id)

\* C9 as stated: when a step fails, no later step runs, no history write is
\* issued for the failing migration or a later one, and the call returns
\* the step's error.
C9_Original ==
    \A c \in callers :
        /\ NothingAfterFailedStep(c)
        /\ \A n \in Positions(c) :
            (log[c][n].e = "step" /\ ~log[c][n].ok /\ Returned(c)) =>
                result[c] = NewErr("step", log[c][n].id, log[c][n].k)

\* C9 amended: when a step fails, no later step runs, no history write is
\* issued for the failing migration or a later one, and the call returns
\* the step's error, or, when the transaction's rollback fails too, the
\* composite error made of the step's error and the rollback's.
C9_StepFailureStopsRun ==
    \A c \in callers :
        /\ NothingAfterFailedStep(c)
        /\ \A n \in Positions(c) :
            (log[c][n].e = "step" /\ ~log[c][n].ok /\ Returned(c)) =>
                LET e == NewErr("step", log[c][n].id, log[c][n].k)
                    rollbackFailed ==
                        \E m \in Positions(c) : log[c][m].e = "rollback" /\ ~log[c][m].ok
                IN  result[c] = IF rollbackFailed THEN CompositeErr(e) ELSE e

\* C9's case: the first step of a migration with two steps failed, after an
\* earlier migration of the run was done, and the call has returned.
C9_Witness ==
    \E c \in callers :
        /\ Returned(c)
        /\ \E n \in Positions(c) :
            /\ log[c][n].e = "step" /\ ~log[c][n].ok /\ log[c][n].k = 1
            /\ Len(StepsFor(Loaded[log[c][n].id], cur[c].op)) > 1
            /\ n > 1 /\ log[c][n - 1].e \in {"record", "remove"}

\* C10: one MigrateUp call processes migrations in ascending numeric
\* version order: for processed migrations a < b, every step and the
\* RecordMigration of a come before any step of b.
C10_UpAscending ==
    \A c \in callers :
        cur[c].op = "up" =>
            \A n, m \in Positions(c) :
                (/\ log[c][n].e \in {"step", "record"}
                 /\ log[c][m].e = "step"
                 /\ Num(log[c][n].id) < Num(log[c][m].id)) => n < m

\* C10's case: a MigrateUp that processed two migrations the sources
\* supplied in descending order.
C10_Witness ==
    \E c \in callers :
        /\ cur[c].op = "up"
        /\ \E n, m \in Positions(c) :
            /\ log[c][n].e = "record" /\ log[c][m].e = "step"
            /\ Num(log[c][n].id) < Num(log[c][m].id)
            /\ log[c][n].id > log[c][m].id

\* C11: one MigrateDown call processes migrations in descending numeric
\* version order: for rolled-back migrations a > b, every down step and
\* the RemoveMigration of a come before any down step of b.
C11_DownDescending ==
    \A c \in callers :
        cur[c].op = "down" =>
            \A n, m \in Positions(c) :
                (/\ log[c][n].e \in {"step", "remove"}
                 /\ log[c][m].e = "step"
                 /\ Num(log[c][n].id) > Num(log[c][m].id)) => n < m

\* C11's case: a MigrateDown that rolled back two migrations the sources
\* supplied in ascending order.
C11_Witness ==
    \E c \in callers :
        /\ cur[c].op = "down"
        /\ \E n, m \in Positions(c) :
            /\ log[c][n].e = "remove" /\ log[c][m].e = "step"
            /\ Num(log[c][n].id) > Num(log[c][m].id)
            /\ log[c][n].id > log[c][m].id

\* The call returned the error of a source or of the validation of the load.
LoadErrorReturned(c) == Returned(c) /\ result[c].kind \in {"load", "validation"}

\* C12 as stated: a source-load or validation error makes MigrateUp and
\* MigrateDown return before any database mutation: the history table is
\* not created, no step is executed and no history write is issued.
C12_Original ==
    \A c \in callers :
        LoadErrorReturned(c) =>
            /\ tableExists = cur[c].existed
            /\ rows = cur[c].before
            /\ \A n \in Positions(c) : log[c][n].e \notin {"step", "record", "remove"}

\* C12: a source-load or validation error makes MigrateUp and MigrateDown
\* return before any step execution and any history write. MigrateDown has
\* then done no database operation at all; MigrateUp has done exactly one,
\* its EnsureHistoryTable, so the history table exists whether or not it
\* did before the call.
C12_LoadErrorBeforeStepsAndWrites ==
    \A c \in callers :
        LoadErrorReturned(c) =>
            /\ rows = cur[c].before
            /\ cur[c].op = "down" => (log[c] = <<>> /\ tableExists = cur[c].existed)
            /\ cur[c].op = "up" => (log[c] = << Event("ensure", 0, 0, TRUE, "db") >> /\ tableExists)

\* C12's case: a MigrateUp that created the missing history table and then
\* returned the validation error of the load.
C12_Witness ==
    \E c \in callers :
        /\ LoadErrorReturned(c) /\ result[c].kind = "validation"
        /\ cur[c].op = "up"
        /\ ~cur[c].existed /\ tableExists

\* C13: two streams with distinct migration names sharing one history
\* table are independent, each can record a migration of the same Version:
\* the INSERT of RecordMigration is refused for its key only when the
\* stream's own row of that Version is there, never because of a row of
\* another migration name.
C13_StreamsIndependent ==
    \A c \in callers :
        (call[c].pc = "history" /\ call[c].op = "up") =>
            LET v == call[c].all[call[c].i].Version
            IN  InsertConflicts(View(call[c]), v) => Row(v, migrationName) \in View(call[c])

\* C14: the SQLite and the MySQL history manager are equivalent: whenever
\* a call is about to read the applied versions, AppliedMigrations of the
\* manager the Migrator was built with answers as that of the SQLite
\* manager does on the same database, and on an existing table the answer
\* is exactly the versions recorded for the migration name.
C14_ManagersEquivalent ==
    \A c \in callers :
        call[c].pc = "load" =>
            LET own  == HistoryAppliedMigrations(historyManager, tableExists, rows, migrationName)
                lite == HistoryAppliedMigrations("sqlite", tableExists, rows, migrationName)
            IN  /\ own = lite
                /\ tableExists =>
                     /\ own.ok
                     /\ own.versions =
                          { r.version : r \in { q \in rows : q.migration_name = migrationName } }

\* The context of the call was cancelled while it ran.
WasCancelled(c) == Count(c, "cancel") > 0

\* C15: in transactional mode a cancellation of the context at any point
\* before the commit leaves no partial history state: the call returns an
\* error, and the history rows are then those of before the call.
C15_TxCancelLeavesHistory ==
    \A c \in callers :
        (transactional /\ Returned(c) /\ WasCancelled(c)) =>
            /\ result[c] # NoErr
            /\ rows = cur[c].before

\* C15's case: a transactional call cancelled after a history write had
\* succeeded inside the transaction, returned with an error.
C15_Witness ==
    \E c \in callers :
        /\ transactional /\ Returned(c) /\ result[c] # NoErr
        /\ \E n, m \in Positions(c) :
            /\ n < m
            /\ log[c][n].e \in {"record", "remove"} /\ log[c][n].ok /\ log[c][n].via = "tx"
            /\ log[c][m].e = "cancel"

\* The places of the migrations in the sources: source and index in it.
SourceEntries ==
    UNION { { <<s, n>> : n \in DOMAIN LoadMigrations(sources[s]) } : s \in DOMAIN sources }

\* The migration at a place in the sources.
Supplied(p) == LoadMigrations(sources[p[1]])[p[2]]

\* A migration without the tag of its place in the discovery order.
Plain(m) == [Version |-> m.Version, UpSteps |-> m.UpSteps, DownSteps |-> m.DownSteps]

\* C16: when it succeeds, LoadAllMigrations returns the migrations of all
\* sources sorted ascending by the integer parse of Version, whatever the
\* order the sources give them in, and as a permutation: every migration is
\* in the output as many times as the sources return it. A MigrateUp past
\* its load works on that list.
C16_LoadSortedPermutation ==
    LET r == LoadAllMigrations(sources)
    IN  r.err = NoErr =>
          /\ Len(r.all) = Cardinality(SourceEntries)
          /\ \A p \in SourceEntries :
                Cardinality({ n \in DOMAIN r.all : Plain(r.all[n]) = Supplied(p) })
                  = Cardinality({ q \in SourceEntries : Supplied(q) = Supplied(p) })
          /\ \A n, m \in DOMAIN r.all :
                n < m => Atoi(r.all[n].Version) <= Atoi(r.all[m].Version)
          /\ \A c \in callers :
                (call[c].op = "up" /\ call[c].pc \notin {"idle", "ensure", "load"}) =>
                    call[c].all = r.all

\* C16's case: a MigrateUp past its load of three migrations from more
\* than one source, discovered in an order that is not the sorted one, two
\* of them with the same Version.
C16_Witness ==
    \E c \in callers :
        /\ call[c].op = "up" /\ call[c].pc = "steps"
        /\ Len(call[c].all) = MaxMigs + 1
        /\ Len(sources) > 1
        /\ \E n, m \in DOMAIN call[c].all :
              n < m /\ call[c].all[n].id > call[c].all[m].id
        /\ \E n, m \in DOMAIN call[c].all :
              n # m /\ call[c].all[n].Version = call[c].all[m].Version

\* Some source returns a migration without up steps.
AnyZeroUpSteps == \E p \in SourceEntries : Supplied(p).UpSteps = <<>>

\* The call got as far as the applied query or further.
PastLoad(c) ==
    \E n \in Positions(c) : log[c][n].e \in {"query", "begin", "step", "record", "remove", "commit", "rollback"}

\* C17: if any migration has no up steps, or any source returns an error,
\* the load fails as a whole, for MigrateDown as for MigrateUp:
\* LoadAllMigrations gives an error and no migration, and a call never
\* gets past its load, it returns an error without a query, a step or a
\* history write.
C17_LoadFailsAsWhole ==
    /\ AnyZeroUpSteps =>
          /\ LoadAllMigrations(sources).err.kind = "validation"
          /\ LoadAllMigrations(sources).all = <<>>
    /\ \A c \in callers :
          /\ AnyZeroUpSteps =>
                /\ call[c].pc \in {"idle", "ensure", "load"}
                /\ ~PastLoad(c)
                /\ Returned(c) => result[c].kind \in {"ensure", "load", "validation"}
          /\ LoadErrorReturned(c) => ~PastLoad(c)

\* C17's case: a MigrateDown that returned the validation error of a load
\* of three migrations, the first two of them valid.
C17_Witness ==
    \E c \in callers :
        /\ Returned(c) /\ result[c].kind = "validation" /\ cur[c].op = "down"
        /\ Cardinality(SourceEntries) = MaxMigs + 1
        /\ Supplied(<<1, 1>>).UpSteps # <<>>
        /\ Cardinality({ p \in SourceEntries : Supplied(p).UpSteps = <<>> }) = 1

\* A successful BeginTx is in the log before position n.
BegunBefore(c, n) == \E b \in 1..(n - 1) : log[c][b].e = "begin" /\ log[c][b].ok

\* C18 as stated: in transactional mode the load with its applied-set
\* snapshot, the ordering, the filtering and the execution all happen
\* inside the one transaction: the applied query, every step and every
\* history write go through the transaction, after its begin.
C18_Original ==
    \A c \in callers :
        transactional =>
            \A n \in Positions(c) :
                log[c][n].e \in {"query", "step", "record", "remove"} =>
                    log[c][n].via = "tx" /\ BegunBefore(c, n)

\* C18: in transactional mode a call begins at most one transaction, after
\* the load and the applied-set snapshot: the applied query is made on the
\* database handle before the begin, and every step and every history
\* write go through that transaction, which the call ends with one commit
\* or rollback.
C18_TxBegunAfterSnapshot ==
    \A c \in callers :
        transactional =>
            /\ Count(c, "begin") <= 1
            /\ \A n \in Positions(c) :
                  /\ log[c][n].e = "query" => (log[c][n].via = "db" /\ ~BegunBefore(c, n))
                  /\ log[c][n].e = "begin" => \E q \in 1..(n - 1) : log[c][q].e = "query" /\ log[c][q].ok
                  /\ log[c][n].e \in {"step", "record", "remove", "commit", "rollback"} =>
                        (log[c][n].via = "tx" /\ BegunBefore(c, n))

\* C18's case: a transactional call that made its applied query, began its
\* transaction, ran a step and a history write in it, and committed.
C18_Witness ==
    \E c \in callers :
        /\ transactional /\ Succeeded(c)
        /\ \E q, b, s, w, e \in Positions(c) :
              /\ q < b /\ b < s /\ s < w /\ w < e
              /\ log[c][q].e = "query" /\ log[c][b].e = "begin" /\ log[c][s].e = "step"
              /\ log[c][w].e \in {"record", "remove"} /\ log[c][e].e = "commit"

\* The error of the step or history write that failed in the call.
FailedWith(c) ==
    LET n == CHOOSE m \in Positions(c) :
                 log[c][m].e \in {"step", "record", "remove"} /\ ~log[c][m].ok
    IN  [kind |-> log[c][n].e, id |-> log[c][n].id, k |-> log[c][n].k, rb |-> FALSE]

\* C19: when a step or a history write fails in transactional mode, the
\* call returns the error of it unchanged if the rollback succeeds, and if
\* the rollback fails too, one composite error that carries that error and
\* the rollback failure.
C19_RollbackErrorComposite ==
    \A c \in callers :
        (transactional /\ Returned(c) /\ SomeFailure(c)) =>
            \E n \in Positions(c) :
                /\ log[c][n].e = "rollback"
                /\ log[c][n].ok => result[c] = FailedWith(c)
                /\ ~log[c][n].ok =>
                      /\ result[c] # FailedWith(c)
                      /\ result[c].rb
                      /\ [result[c] EXCEPT !.rb = FALSE] = FailedWith(c)

\* C19's case: a history write failed in a transaction and the rollback
\* failed after it.
C19_Witness ==
    \E c \in callers :
        /\ transactional /\ Returned(c)
        /\ \E n, m \in Positions(c) :
              /\ n < m
              /\ log[c][n].e = "record" /\ ~log[c][n].ok
              /\ log[c][m].e = "rollback" /\ ~log[c][m].ok

\* The operations a call makes on the database after an ensure.
AfterEnsureOps == {"query", "begin", "step", "record", "remove", "commit", "rollback"}

\* C20: MigrateUp calls EnsureHistoryTable once, before it loads, queries
\* or executes anything, and when that fails it returns the error without
\* doing anything else; MigrateDown never calls EnsureHistoryTable.
C20_EnsureFirstInUpOnly ==
    \A c \in callers :
        /\ cur[c].op = "down" => Count(c, "ensure") = 0
        /\ cur[c].op = "up" =>
              /\ Count(c, "ensure") <= 1
              /\ (Returned(c) \/ call[c].pc \notin {"idle", "ensure"}) => Count(c, "ensure") = 1
              /\ \A n \in Positions(c) :
                    /\ log[c][n].e \in AfterEnsureOps =>
                          \E m \in 1..(n - 1) : log[c][m].e = "ensure" /\ log[c][m].ok
                    /\ (log[c][n].e = "ensure" /\ ~log[c][n].ok) =>
                          /\ Returned(c) /\ result[c] = NewErr("ensure", 0, 0)
                          /\ \A m \in Positions(c) : log[c][m].e \notin AfterEnsureOps
                          /\ tableExists = cur[c].existed /\ rows = cur[c].before

\* C20's case: a MigrateUp on a database without the history table, with
\* migrations that would load, returned the error of EnsureHistoryTable.
C20_Witness ==
    \E c \in callers :
        /\ cur[c].op = "up" /\ Returned(c) /\ result[c].kind = "ensure"
        /\ ~tableExists
        /\ LoadAllMigrations(sources).err = NoErr

\* C21: after MigrateDown with the empty target returns success, no loaded
\* Version is left in the applied-set of the migration name.
C21_DownRollsBackEveryApplied ==
    \A c \in callers :
        (Succeeded(c) /\ cur[c].op = "down" /\ cur[c].target = <<>>) =>
            \A id \in LoadedIds :
                Loaded[id].Version \notin AppliedMigrations(rows, migrationName)

\* C21's case: a successful MigrateDown("") on a history that held a
\* loaded Version the sources give after one that was not applied.
C21_Witness ==
    \E c \in callers :
        /\ Succeeded(c) /\ cur[c].op = "down" /\ cur[c].target = <<>>
        /\ \E a, b \in LoadedIds :
              /\ Num(a) > Num(b)
              /\ Loaded[a].Version \notin AppliedAtStart(c)
              /\ Loaded[b].Version \in AppliedAtStart(c)
              /\ Written(c, "remove", b)

\* C22: in non-transactional mode no transaction is begun, committed or
\* rolled back, whether the call succeeds or fails, and every step and
\* every history write goes to the database handle.
C22_NonTxNoTransaction ==
    \A c \in callers :
        ~transactional =>
            /\ ~call[c].txOpen
            /\ call[c].writes = <<>>
            /\ \A n \in Positions(c) :
                  /\ log[c][n].e \notin {"begin", "commit", "rollback"}
                  /\ log[c][n].via = "db"

\* C22's case: a non-transactional call that wrote history for one
\* migration and then returned the error of a step of the next.
C22_Witness ==
    \E c \in callers :
        /\ ~transactional /\ Returned(c) /\ result[c].kind = "step"
        /\ \E n, m \in Positions(c) :
              /\ n < m
              /\ log[c][n].e \in {"record", "remove"} /\ log[c][n].ok
              /\ log[c][m].e = "step" /\ ~log[c][m].ok

\* C29: the history write of a migration (RecordMigration in MigrateUp,
\* RemoveMigration in MigrateDown) is issued only after every step of it in
\* the direction of the call has returned success in that call, and no step
\* of another migration runs between the first step of a migration and
\* its history write.
C29_HistoryWriteAfterAllSteps ==
    \A c \in callers :
        \A n \in Positions(c) :
            log[c][n].e \in {"record", "remove"} =>
                /\ log[c][n].e = (IF cur[c].op = "up" THEN "record" ELSE "remove")
                /\ \A k \in 1..Len(StepsFor(Loaded[log[c][n].id], cur[c].op)) :
                      \E m \in 1..(n - 1) :
                          /\ log[c][m].e = "step" /\ log[c][m].id = log[c][n].id
                          /\ log[c][m].k = k /\ log[c][m].ok
                /\ \A m \in Positions(c) :
                      (log[c][m].e = "step" /\ log[c][m].id = log[c][n].id) =>
                          /\ m < n /\ log[c][m].ok
                          /\ \A q \in m..n : log[c][q].id = log[c][n].id

\* C29's case: a call that ran both steps of one migration, wrote its
\* history, and then ran a step of the next migration.
C29_Witness ==
    \E c \in callers :
        \E n, m \in Positions(c) :
            /\ n < m
            /\ log[c][n].e \in {"record", "remove"} /\ log[c][n].ok
            /\ Len(StepsFor(Loaded[log[c][n].id], cur[c].op)) = MaxSteps
            /\ log[c][m].e = "step" /\ log[c][m].id # log[c][n].id

\* C24: EnsureHistoryTable is idempotent. Whenever a call is about to
\* ensure a history table that is there, the statement is one the database
\* executes without an error and without a change to the table; and once
\* the ensure of a MigrateUp has succeeded the table is there with the
\* history rows it had before the call.
C24_EnsureIdempotent ==
    \A c \in callers :
        /\ (call[c].pc = "ensure" /\ tableExists) =>
              CreateTableIfNotExists(tableExists, rows) = [ok |-> TRUE, exists |-> TRUE, rows |-> rows]
        /\ (log[c] # <<>> /\ log[c][1].e = "ensure" /\ log[c][1].ok /\ Len(log[c]) = 1) =>
              /\ tableExists
              /\ rows = cur[c].before

\* C24's case: the ensure of a MigrateUp succeeded on a history table that
\* was there and held a row.
C24_Witness ==
    \E c \in callers :
        /\ cur[c].op = "up" /\ cur[c].existed /\ cur[c].before # {}
        /\ call[c].pc = "load"
        /\ log[c] = << Event("ensure", 0, 0, TRUE, "db") >>

\* The step a step event of the log is about.
StepAt(c, n) == StepsFor(Loaded[log[c][n].id], cur[c].op)[log[c][n].k]

\* The step event at n is of a hook step without a hook for the direction
\* of the call.
UnsetHookAt(c, n) ==
    /\ log[c][n].e = "step"
    /\ StepAt(c, n).kind = "hook"
    /\ HookFor(StepAt(c, n), cur[c].op) = NilHook

\* C25: a hook step whose hook for the direction of the call is unset
\* returns an error without invoking anything, and the call treats it as
\* a step failure: no history write is issued for the migration, nothing
\* but the rollback follows, and the call returns the error.
C25_UnsetHookFailsStep ==
    \A c \in callers :
        \A n \in Positions(c) :
            UnsetHookAt(c, n) =>
                /\ ~log[c][n].ok
                /\ \A x \in DOMAIN sent[c] :
                      ~(sent[c][x].id = log[c][n].id /\ sent[c][x].k = log[c][n].k)
                /\ ~Issued(c, "record", log[c][n].id) /\ ~Issued(c, "remove", log[c][n].id)
                /\ \A m \in Positions(c) : m > n => log[c][m].e = "rollback"
                /\ call[c].pc \in {"rollback", "idle"}
                /\ Returned(c) =>
                      [result[c] EXCEPT !.rb = FALSE] = NewErr("step", log[c][n].id, log[c][n].k)

\* C25's case: a MigrateDown that called the down hook of one migration,
\* removed it, met a hook step without a down hook in the next, and
\* returned.
C25_Witness ==
    \E c \in callers :
        /\ Returned(c) /\ cur[c].op = "down"
        /\ \E n, m \in Positions(c) :
              /\ n < m
              /\ log[c][n].e = "remove" /\ log[c][n].ok
              /\ UnsetHookAt(c, m)
        /\ \E x \in DOMAIN sent[c] : sent[c][x].what = "hook" /\ sent[c][x].fn = Hook("g", <<>>)

\* C27: for a migration of a literal source with up text U and down text
\* D, MigrateUp sends exactly U and MigrateDown exactly D to the executor
\* it was handed, each unchanged and as one statement: every step executed
\* sent one statement, and a migration sent no more than one.
C27_VarTextSentVerbatim ==
    \A c \in callers :
        /\ Len(sent[c]) = Count(c, "step")
        /\ \A x \in DOMAIN sent[c] :
              LET src == sources[sent[c][x].id]
              IN  src.kind = "var" =>
                    /\ sent[c][x].what = "exec"
                    /\ sent[c][x].sql = (IF cur[c].op = "up" THEN src.UpSQL ELSE src.DownSQL)
                    /\ sent[c][x].via = (IF transactional THEN "tx" ELSE "db")
                    /\ \A y \in DOMAIN sent[c] : sent[c][y].id = sent[c][x].id => y = x

\* C27's case: a successful MigrateDown over two literal sources whose up
\* and down texts differ sent the down text of each.
C27_Witness ==
    \E c \in callers :
        /\ Succeeded(c) /\ cur[c].op = "down"
        /\ Len(sent[c]) = MaxMigs
        /\ \A x \in DOMAIN sent[c] :
              /\ sources[sent[c][x].id].UpSQL # sources[sent[c][x].id].DownSQL
              /\ sent[c][x].sql = sources[sent[c][x].id].DownSQL

\* C30: migrations whose versions have equal numeric sort keys keep their
\* discovery order in the list LoadAllMigrations returns, and so in the
\* work list of a MigrateUp.
C30_TiesKeepDiscoveryOrder ==
    \A c \in callers :
        (call[c].op = "up" /\ call[c].pc \notin {"idle", "ensure", "load"}) =>
            \A n, m \in DOMAIN call[c].all :
                (n < m /\ Atoi(call[c].all[n].Version) = Atoi(call[c].all[m].Version)) =>
                    call[c].all[n].id < call[c].all[m].id

\* C23: a With method returns a new object and leaves every object that was
\* there before the call, its receiver included, as it was, so that no
\* variant derived earlier from the same base sees the setting.
C23_WithLeavesReceiver ==
    last.n > 0 =>
        /\ last.ret \notin DOMAIN last.before
        /\ \A a \in DOMAIN last.before : heap[a] = last.before[a]

\* The entry at n of the directory is a file the directory source d takes
\* a migration from.
Accepted(d, n) ==
    /\ ~files[n].isDir
    /\ Contains(IF d.AllowedExts.nil THEN DefaultExts ELSE d.AllowedExts, ToLower(Ext(files[n].name)))
    /\ defaultParseFilename(files[n].name).ok

\* Version and direction the name of the entry at n stands for.
VersionAt(n) == defaultParseFilename(files[n].name).version

DirectionAt(n) == defaultParseFilename(files[n].name).direction

\* The steps the claim expects of the entry at n: the pre-hook of the file
\* if it has one, its content, the post-hook if it has one.
ExpectedOf(d, n, direction) ==
    LET hooks    == Resolve(d.ResolveHooks, files[n].name)
        fullPath == PathJoin(d.Dir, files[n].name)
        hookStep(fn) == IF direction = "up"
                        THEN [kind |-> "hook", UpHook |-> Hook(fn, fullPath), DownHook |-> NilHook]
                        ELSE [kind |-> "hook", UpHook |-> NilHook, DownHook |-> Hook(fn, fullPath)]
    IN  (IF hooks.pre = "nil" THEN <<>> ELSE << hookStep(hooks.pre) >>)
        \o << [kind |-> "sql", SQL |-> files[n].content] >>
        \o (IF hooks.post = "nil" THEN <<>> ELSE << hookStep(hooks.post) >>)

\* The same of the entries ns, one after the other in the order of the
\* directory.
RECURSIVE ExpectedSteps(_, _, _)
ExpectedSteps(d, ns, direction) ==
    IF ns = {} THEN <<>>
    ELSE LET n == CHOOSE x \in ns : \A y \in ns : x <= y
         IN  ExpectedOf(d, n, direction) \o ExpectedSteps(d, ns \ {n}, direction)

\* C26: what a directory source returns has one Migration for every
\* version a file of the directory stands for and no other, the up files
\* and the down files of the version merged into it, in ascending order of
\* the numeric value of the versions; the steps of each file stand in its
\* direction's list as pre-hook, content, post-hook.
C26_DirMergesSortsAndHooks ==
    (loaded.by = "dir" /\ ~loaded.err) =>
        LET d    == loaded.src
            migs == loaded.migs
            acc  == { n \in DOMAIN files : Accepted(d, n) }
        IN  /\ \A i, j \in DOMAIN migs : i # j => migs[i].Version # migs[j].Version
            /\ { migs[i].Version : i \in DOMAIN migs } = { VersionAt(n) : n \in acc }
            /\ \A i, j \in DOMAIN migs : i < j => Atoi(migs[i].Version) <= Atoi(migs[j].Version)
            /\ \A i \in DOMAIN migs :
                  /\ migs[i].UpSteps =
                        ExpectedSteps(d, { n \in acc : VersionAt(n) = migs[i].Version
                                                       /\ DirectionAt(n) = <<"u", "p">> }, "up")
                  /\ migs[i].DownSteps =
                        ExpectedSteps(d, { n \in acc : VersionAt(n) = migs[i].Version
                                                       /\ DirectionAt(n) = <<"d", "o", "w", "n">> }, "down")

\* A directory source returned two migrations, one of them merged from an
\* up file with both hooks and a down file.
C26_Witness ==
    /\ loaded.by = "dir" /\ ~loaded.err
    /\ Len(loaded.migs) >= 2
    /\ \E i \in DOMAIN loaded.migs :
          /\ Len(loaded.migs[i].UpSteps) = 3
          /\ loaded.migs[i].UpSteps[1].kind = "hook"
          /\ loaded.migs[i].UpSteps[2].kind = "sql"
          /\ loaded.migs[i].UpSteps[3].kind = "hook"
          /\ Len(loaded.migs[i].DownSteps) >= 1

\* C28: a single-file source without a parser gives its migration the
\* Version and the Name the default parser reads off the file name, and the
\* bare file name only when the default parser rejects the file name.
C28_FileUsesDefaultParser ==
    (loaded.by = "file" /\ ~loaded.err /\ loaded.src.FilenameParser = "nil") =>
        LET base   == Base(loaded.src.FilePath)
            parsed == defaultParseFilename(base)
            bare   == TrimSuffix(base, Ext(base))
        IN  /\ loaded.migs[1].Version = IF parsed.ok THEN parsed.version ELSE bare
            /\ loaded.migs[1].Name = IF parsed.ok THEN parsed.name ELSE bare

\* Integer parsing of a string fails: it is no numeral, or it is a numeral
\* outside the int range.
IsNumeral(s) ==
    LET body == IF s # <<>> /\ Head(s) \in {"+", "-"} THEN Tail(s) ELSE s
    IN  body # <<>> /\ \A i \in DOMAIN body : IsDigit(body[i])

OutOfRange(s) ==
    /\ IsNumeral(s)
    /\ LET neg  == Head(s) = "-"
           body == IF Head(s) \in {"+", "-"} THEN Tail(s) ELSE s
       IN  ParseDigits(body, 0) > (IF neg THEN MaxInt + 1 ELSE MaxInt)

ParseFails(s) == ~IsNumeral(s) \/ OutOfRange(s)

\* The number a string counts as: 0 when it is no numeral, the end of the
\* int range on its side when it is a numeral past the range, and its
\* value otherwise.
KeyOf(s) ==
    IF ~IsNumeral(s) THEN 0
    ELSE LET neg  == Head(s) = "-"
             body == IF Head(s) \in {"+", "-"} THEN Tail(s) ELSE s
         IN  IF OutOfRange(s) THEN (IF neg THEN MinInt ELSE MaxInt)
             ELSE IF neg THEN 0 - ParseDigits(body, 0) ELSE ParseDigits(body, 0)

AppliedOnlyByNumber(c, id) ==
    /\ Loaded[id].Version \notin AppliedAtStart(c)
    /\ \E a \in AppliedAtStart(c) : KeyOf(a) = KeyOf(Loaded[id].Version)

\* The indices of a work-list a loop executes from index `from` on when no
\* operation fails: those of the migrations that are not skipped, up to
\* the first that is past the target.
RECURSIVE WorkIndices(_, _, _, _, _)
WorkIndices(all, applied, target, op, from) ==
    IF from > Len(all) THEN {}
    ELSE IF (op = "up") = (all[from].Version \in applied)
         THEN WorkIndices(all, applied, target, op, from + 1)
         ELSE IF target # <<>> /\ ((op = "up" /\ KeyOf(all[from].Version) > KeyOf(target))
                                   \/ (op = "down" /\ KeyOf(all[from].Version) < KeyOf(target)))
              THEN {}
              ELSE {from} \cup WorkIndices(all, applied, target, op, from + 1)

\* The migrations the call of c would execute were its target t.
Selected(c, t) ==
    LET list == SortSlice(Loaded, cur[c].op)
    IN  { list[n].id : n \in WorkIndices(list, AppliedAtStart(c), t, cur[c].op, 1) }

\* The targets written with and without padding.
PaddedTargets == { <<"2">>, <<"0", "2">> }

\* C32: membership in the applied-set goes by the Version string, order and
\* targets by its number. A migration whose Version is not in the
\* applied-set is applied by a successful MigrateUp that reaches it and is
\* left alone by MigrateDown, whatever other writing of its number the
\* applied-set holds; and a successful call with target "2" or "02" has
\* written the history of the same migrations, those target "2" selects.
C32_StringIdentityNumericOrder ==
    \A c \in callers :
        /\ \A id \in LoadedIds :
              Loaded[id].Version \notin AppliedAtStart(c) =>
                  /\ (Succeeded(c) /\ cur[c].op = "up"
                        /\ (cur[c].target = <<>> \/ KeyOf(Loaded[id].Version) <= KeyOf(cur[c].target))) =>
                        AllStepsRan(c, id, "up") /\ Written(c, "record", id)
                  /\ cur[c].op = "down" => ~Touched(c, id) /\ ~Issued(c, "remove", id)
        /\ (Succeeded(c) /\ cur[c].target \in PaddedTargets) =>
              \A id \in LoadedIds :
                  Written(c, IF cur[c].op = "up" THEN "record" ELSE "remove", id)
                      <=> id \in Selected(c, <<"2">>)

\* C32's case: the table held version "1", and a successful MigrateUp with
\* target "02" executed and recorded the loaded migration of Version "01".
C32_Witness ==
    \E c \in callers :
        /\ Succeeded(c) /\ cur[c].op = "up" /\ cur[c].target = <<"0", "2">>
        /\ \E id \in LoadedIds :
            /\ AppliedOnlyByNumber(c, id)
            /\ AllStepsRan(c, id, "up") /\ Written(c, "record", id)

\* C33: nothing in a call waits for or looks at another call. A call that
\* can read the applied-set reads it whatever calls are in flight beside
\* it, and a MigrateUp that got as far as the commit has executed every
\* migration of its work-list that its own snapshot did not hold and its
\* target did not exclude, whatever the other call did meanwhile.
C33_NoCoordination ==
    \A c \in callers :
        /\ (call[c].pc = "load" /\ ~call[c].cancelled
              /\ LoadAllMigrations(sources).err = NoErr
              /\ HistoryAppliedMigrations(historyManager, tableExists, rows, migrationName).ok) =>
              ENABLED GetAllAndAppliedMigrations(c)
        /\ (call[c].pc = "commit" /\ call[c].op = "up") =>
              \A n \in DOMAIN call[c].all :
                  (call[c].all[n].Version \notin call[c].applied
                     /\ (call[c].target = <<>>
                           \/ KeyOf(call[c].all[n].Version) <= KeyOf(call[c].target))) =>
                      AllStepsRan(c, call[c].all[n].id, "up")

\* C33's case: two MigrateUp calls both read the applied-set before either
\* recorded, and the up step of one migration was executed by both.
C33_Witness ==
    \E c, d \in callers :
        /\ c # d
        /\ cur[c].op = "up" /\ cur[d].op = "up"
        /\ \E id \in LoadedIds :
            /\ Loaded[id].Version \notin AppliedAtStart(c) \cup AppliedAtStart(d)
            /\ Loaded[id].Version \notin call[c].applied \cup call[d].applied
            /\ \E n \in Positions(c) : log[c][n].e = "step" /\ log[c][n].id = id /\ log[c][n].ok
            /\ \E n \in Positions(d) : log[d][n].e = "step" /\ log[d][n].id = id /\ log[d][n].ok
            /\ call[c].pc = "history" /\ call[d].pc = "history"
            /\ call[c].all[call[c].i].id = id /\ call[d].all[call[d].i].id = id

\* Migrations a and b are two loaded migrations of one Version, a found
\* before b, which the applied-set at the start of the call did not hold.
SharePending(c, a, b) ==
    /\ a < b
    /\ Loaded[a].Version = Loaded[b].Version
    /\ Loaded[a].Version \notin AppliedAtStart(c)

\* C34: the applied-set of a call is the one read at its start for as long
\* as the work-list runs; so when two loaded migrations share a Version
\* that it does not hold, a MigrateUp that has recorded the first goes on
\* to execute the up steps of the second, and once these are done issues
\* RecordMigration for the Version a second time.
C34_SnapshotNotUpdated ==
    \A c \in callers :
        /\ call[c].pc \in {"begin", "steps", "history", "commit", "rollback"} =>
              call[c].applied = AppliedAtStart(c)
        /\ (cur[c].op = "up" /\ Returned(c)) =>
              \A a, b \in LoadedIds :
                  (SharePending(c, a, b) /\ Written(c, "record", a)) =>
                      /\ Touched(c, b)
                      /\ AllStepsRan(c, b, "up") => Issued(c, "record", b)

\* C34's case: a MigrateUp executed the up steps of two migrations of one
\* Version and issued RecordMigration for both.
C34_Witness ==
    \E c \in callers :
        /\ cur[c].op = "up" /\ Returned(c)
        /\ \E a, b \in LoadedIds :
            /\ SharePending(c, a, b)
            /\ AllStepsRan(c, a, "up") /\ Written(c, "record", a)
            /\ AllStepsRan(c, b, "up") /\ Issued(c, "record", b)

\* The call that returned failed at migration id: at one of its up steps,
\* or at its RecordMigration.
FailedAt(e, id) == e.kind \in {"step", "record"} /\ e.id = id

\* No other loaded migration has the Version of migration id.
SoleVersion(id) == \A j \in LoadedIds : Loaded[j].Version = Loaded[id].Version => j = id

\* The first step event of migration id in the log of the call is of its
\* first step.
FromFirstStep(c, id) ==
    \A n \in Positions(c) :
        (log[c][n].e = "step" /\ log[c][n].id = id
           /\ \A m \in 1..(n - 1) : ~(log[c][m].e = "step" /\ log[c][m].id = id)) =>
            log[c][n].k = 1

\* What a failed non-transactional MigrateUp leaves of the migrations in
\* ids it failed at, and what the MigrateUp after it does with them.
NotCompensated(ids) ==
    \A c \in callers :
        /\ (~transactional /\ cur[c].op = "up" /\ Returned(c)) =>
              \A id \in ids :
                  (FailedAt(result[c], id) /\ Loaded[id].Version \notin AppliedAtStart(c)) =>
                      /\ Row(Loaded[id].Version, migrationName) \notin rows
                      /\ \A k \in 1..Len(Loaded[id].UpSteps) :
                            (result[c].kind = "record" \/ k < result[c].k) =>
                                \E x \in DOMAIN sent[c] :
                                    /\ sent[c][x].id = id /\ sent[c][x].k = k
                                    /\ sent[c][x].via = "db"
                      /\ Count(c, "rollback") = 0
        /\ (~transactional /\ prev[c].op = "up" /\ cur[c].op = "up") =>
              \A id \in ids :
                  (FailedAt(prev[c].err, id)
                     /\ Loaded[id].Version \notin { r.version : r \in prev[c].before }) =>
                      /\ Loaded[id].Version \notin AppliedAtStart(c)
                      /\ FromFirstStep(c, id)
                      /\ (Succeeded(c) /\ (cur[c].target = <<>>
                                            \/ KeyOf(Loaded[id].Version) <= KeyOf(cur[c].target))) =>
                            AllStepsRan(c, id, "up") /\ Written(c, "record", id)

\* C35 as stated: in non-transactional mode, after a MigrateUp failed at a
\* step of a pending migration or at its RecordMigration, the executed
\* steps of that migration stay in the database, the table holds no record
\* of it, and the next MigrateUp executes it again from its first step.
C35_Original == NotCompensated(LoadedIds)

\* C35: in non-transactional mode, after a MigrateUp failed at a step of a
\* pending migration whose Version no other loaded migration has, or at
\* its RecordMigration, the steps of that migration that were executed
\* went to the database handle and no rollback followed, while the table
\* holds no record of the migration; the MigrateUp after it finds it not
\* applied, starts it at its first step when it touches it, and has
\* executed all its steps and recorded it when it succeeds with a target
\* that admits it.
C35_NonTxFailureNotCompensated == NotCompensated({ id \in LoadedIds : SoleVersion(id) })

\* C35's case: a non-transactional MigrateUp failed at the second step of
\* a migration, and the MigrateUp after it executed the migration again
\* from its first step and recorded it.
C35_Witness ==
    \E c \in callers :
        /\ ~transactional /\ prev[c].op = "up" /\ cur[c].op = "up" /\ Succeeded(c)
        /\ \E id \in LoadedIds :
            /\ SoleVersion(id)
            /\ prev[c].err.kind = "step" /\ prev[c].err.id = id /\ prev[c].err.k = 2
            /\ \E n \in Positions(c) : log[c][n].e = "step" /\ log[c][n].id = id /\ log[c][n].k = 1
            /\ AllStepsRan(c, id, "up") /\ Written(c, "record", id)

\* The call returned the error of one of the operations before its loop.
FailedBeforeLoop(c) ==
    Returned(c) /\ result[c].kind \in {"ensure", "load", "validation", "query", "begin"}

\* C36: a call that returns the error of EnsureHistoryTable, of the source
\* load, of the validation, of the applied-set query or of the transaction
\* begin has executed no step, issued no RecordMigration or RemoveMigration,
\* committed and rolled back nothing, and left the history rows as they
\* were.
C36_EarlyFailureTouchesNothing ==
    \A c \in callers :
        FailedBeforeLoop(c) =>
            /\ \A n \in Positions(c) :
                  log[c][n].e \notin {"step", "record", "remove", "commit", "rollback"}
            /\ sent[c] = <<>>
            /\ rows = cur[c].before
            /\ result[c].rb = FALSE

\* C36's case: the transaction of a call with a pending migration could
\* not be begun, and the call returned that error.
C36_Witness ==
    \E c \in callers :
        /\ FailedBeforeLoop(c) /\ result[c].kind = "begin" /\ cur[c].op = "up"
        /\ \E n \in Positions(c) : log[c][n].e = "begin" /\ ~log[c][n].ok
        /\ \E id \in LoadedIds : Loaded[id].Version \notin AppliedAtStart(c)

\* The commit of the call was refused.
CommitFailed(c) == \E n \in Positions(c) : log[c][n].e = "commit" /\ ~log[c][n].ok

\* C37: a call whose commit is refused returns the commit error, with no
\* step and no history write of it having failed and no Rollback invoked;
\* and a call returns the commit error only then.
C37_CommitErrorNoRollback ==
    \A c \in callers :
        /\ (Returned(c) /\ CommitFailed(c)) =>
              /\ result[c] = NewErr("commit", 0, 0)
              /\ ~SomeFailure(c)
              /\ Count(c, "rollback") = 0
        /\ (call[c].pc = "rollback") => ~CommitFailed(c)
        /\ (Returned(c) /\ result[c].kind = "commit") =>
              /\ transactional
              /\ CommitFailed(c)
              /\ log[c][Len(log[c])].e = "commit"

\* C37's case: every step and the RecordMigration of a migration succeeded
\* in a transaction, the commit was refused and the call returned.
C37_Witness ==
    \E c \in callers :
        /\ Returned(c) /\ CommitFailed(c) /\ cur[c].op = "up"
        /\ \E id \in LoadedIds : AllStepsRan(c, id, "up") /\ Written(c, "record", id)

\* The rows that are of the Migrator's own name and of a loaded Version.
OwnRows == { Row(Loaded[id].Version, migrationName) : id \in LoadedIds }

\* The rows the call in flight or returned has changed, in the table or in
\* the buffer of its transaction.
ChangedRows(c) ==
    ((rows \ cur[c].before) \cup (cur[c].before \ rows))
        \cup { call[c].writes[n].row : n \in DOMAIN call[c].writes }

\* C38: a MigrateUp issues no RemoveMigration and only adds rows, a
\* MigrateDown issues no RecordMigration and only deletes rows; every row
\* either call changes is of the Migrator's own migration name and of the
\* Version of a loaded migration, so rows of other names and of versions no
\* source supplies stay as they were.
C38_OnlyOwnLoadedRecords ==
    \A c \in callers :
        /\ cur[c].op = "up" =>
              /\ Count(c, "remove") = 0
              /\ cur[c].before \subseteq rows
              /\ \A n \in DOMAIN call[c].writes : call[c].writes[n].w = "insert"
        /\ cur[c].op = "down" =>
              /\ Count(c, "record") = 0
              /\ rows \subseteq cur[c].before
              /\ \A n \in DOMAIN call[c].writes : call[c].writes[n].w = "delete"
        /\ cur[c].op # "none" =>
              /\ ChangedRows(c) \subseteq OwnRows
              /\ \A r \in cur[c].before \ OwnRows : r \in rows

\* C38's case: the table held a row of another name or of a version no
\* source supplies, and a call wrote a history record and returned with
\* that row in place.
C38_Witness ==
    \E c \in callers :
        /\ Succeeded(c)
        /\ \E r \in cur[c].before \ OwnRows : r \in rows
        /\ \E id \in LoadedIds : Written(c, "record", id) \/ Written(c, "remove", id)
        /\ rows # cur[c].before

\* In rs, no loaded migration that is not applied is below an applied one
\* in the order of the version numbers.
PrefixIn(rs) ==
    \A i, j \in LoadedIds :
        (Num(i) < Num(j) /\ Loaded[j].Version \in AppliedMigrations(rs, migrationName)) =>
            Loaded[i].Version \in AppliedMigrations(rs, migrationName)

\* The loaded versions are numerals in the integer range, no two of the
\* same number.
DistinctNumeric ==
    /\ \A i \in LoadedIds : IsNumeral(Loaded[i].Version) /\ ~OutOfRange(Loaded[i].Version)
    /\ \A i, j \in LoadedIds : Num(i) = Num(j) => i = j

\* C39: with loaded versions that are numerals of pairwise distinct
\* numbers and one caller, a table in which the applied loaded versions are
\* a prefix of the ascending order at the start of a MigrateUp or
\* MigrateDown is one at every point of the call and after it, whatever
\* the target, the mode and the outcome.
C39_PrefixPreserved ==
    \A c \in callers :
        (cur[c].op # "none" /\ DistinctNumeric /\ PrefixIn(cur[c].before)) => PrefixIn(rows)

\* C39's case: a non-transactional call over three migrations changed the
\* table and failed part-way.
C39_Witness ==
    \E c \in callers :
        /\ ~transactional /\ Returned(c) /\ result[c].kind \in {"step", "record", "remove"}
        /\ Len(Loaded) = 3 /\ DistinctNumeric
        /\ PrefixIn(cur[c].before)
        /\ rows # cur[c].before
        /\ \E i \in LoadedIds : Loaded[i].Version \notin AppliedMigrations(rows, migrationName)
        /\ \E i \in LoadedIds : Loaded[i].Version \in AppliedMigrations(rows, migrationName)

\* C40: a MigrateDown that issues RemoveMigration for a migration whose
\* DownSteps list is empty has executed no step of it; and one that
\* succeeds with the empty target has removed the record of every applied
\* loaded migration with an empty DownSteps list, no step executed.
C40_EmptyDownStillRemoved ==
    \A c \in callers :
        cur[c].op = "down" =>
            \A id \in LoadedIds :
                Loaded[id].DownSteps = <<>> =>
                    /\ ~Touched(c, id)
                    /\ \A x \in DOMAIN sent[c] : sent[c][x].id # id
                    /\ (Succeeded(c) /\ cur[c].target = <<>>
                          /\ Loaded[id].Version \in AppliedAtStart(c)) =>
                            /\ Written(c, "remove", id)
                            /\ Row(Loaded[id].Version, migrationName) \notin rows

\* C40's case: a MigrateDown removed the record of an applied migration
\* that has no down step.
C40_Witness ==
    \E c \in callers :
        /\ cur[c].op = "down" /\ Succeeded(c)
        /\ \E id \in LoadedIds :
            /\ Loaded[id].DownSteps = <<>>
            /\ Row(Loaded[id].Version, migrationName) \in cur[c].before
            /\ Written(c, "remove", id)
            /\ ~Touched(c, id)
            /\ Row(Loaded[id].Version, migrationName) \notin rows

====
